---------------------------- MODULE Spec2Model ----------------------------
(***************************************************************************)
(* A model of the yabridge session layer: the HostBridge constructor and   *)
(* its channel handshake, the reverse-callback thread, the forwarded       *)
(* dispatch call with its effClose interception, VSTPluginMain, and the    *)
(* event codec's wire frame.                                               *)
(*                                                                         *)
(* The native side (host-bridge.cpp, plugin.cpp) is translated from the    *)
(* sources.  The Wine runner, send_event/passthrough_event/read_object and *)
(* the wire format live in files that are not part of the sources at hand; *)
(* they are modelled from the specification and marked as such.            *)
(***************************************************************************)
EXTENDS Integers, Sequences, FiniteSets, TLC

(***************************************************************************)
(* Bounds of the model.                                                    *)
(***************************************************************************)
\* opcodes are 0..MaxOpcode; effClose lies inside the range
MaxOpcode == 2
\* the peer's return values are 0..MaxRet
MaxRet == 1
\* number of forwarded calls the host makes through the descriptor
MaxCalls == 2
\* number of callbacks the runner issues
MaxCallbacks == 2
\* payload strings and buffers hold at most MaxLen bytes
MaxLen == 2
\* payload bytes are 0..MaxByte
MaxByte == 1
\* the header of an image starts up to MaxStub bytes behind the offset field
MaxStub == 1
\* the shim's directory lies MaxDepth levels below the root directory
MaxDepth == 2
\* alphanumeric_characters holds MaxAlphabet characters
MaxAlphabet == 10
\* at most MaxExisting endpoints exist before a name is generated
MaxExisting == 1

\* the steady clock runs from 0 to MaxTime milliseconds
MaxTime == 40

(***************************************************************************)
(* Program constants.                                                      *)
(***************************************************************************)
\* the close opcode of the VST2 ABI, "i.e. opcode 1"
effClose == 1

\* where the linker places the offset of the PE signature: 0x3c
PeOffsetField == 60

\* the machine types find_vst_architecture knows: 0x014c, 0x8664, 0x0000
IMAGE_FILE_MACHINE_I386 == 332

IMAGE_FILE_MACHINE_AMD64 == 34404

IMAGE_FILE_MACHINE_UNKNOWN == 0

\* the number of characters std::sample draws for a random identifier
RandomIdLength == 8

\* std::chrono::milliseconds(5): the least delay before the next tick
minimum_delay == 5

\* constexpr std::chrono::duration event_loop_interval =
\*     std::chrono::milliseconds(1000) / 60, in whole milliseconds
event_loop_interval == 1000 \div 60

Opcodes == 0..MaxOpcode
RetVals == 0..MaxRet

\* the three sockets of HostBridge, by purpose:
\* host_vst_dispatch, vst_host_callback, vst_host_aeffect
Chan == {"dispatch", "callback", "aeffect"}

\* the order of the accept() calls in the constructor
AcceptOrderCallbackFirst == <<"callback", "dispatch", "aeffect">>

AcceptOrder == <<"dispatch", "callback", "aeffect">>

\* the order the runner connects in, as documented: the same one
DocumentedOrder == <<"dispatch", "callback", "aeffect">>

\* every order a runner could connect its three channels in
ConnectOrders ==
    {o \in [1..3 -> Chan] : \A c \in Chan : \E i \in 1..3 : o[i] = c}

\* the socket dispatch() hands to send_event
DispatchChannel == "dispatch"

\* the socket host_callback_loop() hands to passthrough_event
CallbackLoopOnDispatchChannel == "dispatch"

CallbackLoopChannel == "callback"

\* the socket the constructor reads the AEffect from
AeffectChannel == "aeffect"

VARIABLES
    pc_ctor,        \* position of VSTPluginMain / the HostBridge constructor
    bridge,         \* the HostBridge object: "none", "alive", "freed"
    main_ret,       \* what VSTPluginMain returned: "none", "descriptor", "null"
    host_process,   \* the host process: "running", "terminated" (std::terminate)
    socket_acceptor, \* "closed", "listening"
    n_connected,    \* connections the runner has made to the endpoint
    host_sock,      \* host socket -> connection it was accepted on (0: none)
    peer_sock,      \* runner socket -> connection it connected with (0: none)
    peer_order,     \* the order the runner connects its channels in
    h2p,            \* connection -> frames in flight, host to runner
    p2h,            \* connection -> frames in flight, runner to host
    plugin,         \* the AEffect member of the bridge
    removeme,       \* the callback thread: "none", "running"
    vst_host,       \* the runner process: "not_spawned", "running", "exited"
    peer_pc,        \* position of the runner
    peer_ctx,       \* where the runner resumes after a callback returns
    n_callbacks,    \* callbacks the runner has issued
    call_pc,        \* the host's calling thread: "idle", "waiting"
    call_op,        \* opcode of the forwarded call in progress
    call_sent,      \* requests written by the forwarded call in progress
    n_calls,        \* forwarded calls made so far
    last_call,      \* the last forwarded call that came back
    sent_log,       \* every opcode written to the dispatch socket, in order
    cb_serviced,    \* callbacks the callback loop has answered
    cb_blocked,     \* a callback was answered while a dispatch call was blocked
    cb_early,       \* a callback was answered before the AEffect was read
    misrouted,      \* a frame was consumed by a reader of another purpose
    freed_reads,    \* reads of released bridge memory by forwarded calls
    deletes,        \* how often the bridge has been deleted
    descriptor_reads, \* how often the constructor has read the AEffect
    in_callback,    \* the event the callback loop is handing to the host's
                    \* callback, together with &plugin (empty: none)
    socket_endpoint, \* the endpoint name of the bridge (0: not generated)
    runner_endpoint \* the endpoint name the runner was started with (0: none)

bridgeVars ==
    <<pc_ctor, bridge, main_ret, host_process, socket_acceptor, n_connected,
      host_sock, peer_sock, peer_order, h2p, p2h, plugin, removeme, vst_host,
      peer_pc, peer_ctx, n_callbacks, call_pc, call_op, call_sent, n_calls,
      last_call, sent_log, cb_serviced, cb_blocked, cb_early, misrouted,
      freed_reads, deletes, descriptor_reads, in_callback, socket_endpoint,
      runner_endpoint>>

\* the event codec: an event, the wire frame it is encoded to, and the event
\* decoded from that frame
VARIABLES
    codec_pc,       \* "input", "encoded", "decoded"
    ev_in,          \* the event handed to the encoder
    ev_frame,       \* the wire frame
    ev_out          \* the event the decoder returns

codecVars == <<codec_pc, ev_in, ev_frame, ev_out>>

\* the default data converter: the arguments of a call, the memory behind its
\* data pointer and what read() and write() made of it
VARIABLES
    conv_pc,        \* "input", "read", "written", "crashed"
    conv_args,      \* opcode, index and value of the call
    conv_data,      \* the data pointer: null, or the bytes it points to
    conv_before,    \* the bytes behind the pointer before write() ran
    conv_response,  \* the payload of the response handed to write()
    conv_payload    \* the payload read() returned

converterVars ==
    <<conv_pc, conv_args, conv_data, conv_before, conv_response, conv_payload>>

\* find_vst_architecture: the plugin image and the result
VARIABLES
    arch_pc,        \* "input", "done"
    pe_file,        \* the file at plugin_path: whether it exists, its bytes
    arch_result     \* the architecture returned, or the error thrown

archVars == <<arch_pc, pe_file, arch_result>>

\* the discovery of the runner and of the Wine prefix, and the spawn of the
\* runner in the constructor's initializer list
VARIABLES
    spawn_pc,       \* "input", "done"
    image_arch,     \* the architecture of the plugin image next to the shim
    dll_exists,     \* the plugin's .dll is there
    host_beside,    \* runner binaries in the shim's directory
    host_on_path,   \* runner binaries on the search path
    dosdevices,     \* the directories above the shim that hold `dosdevices`
    inherited_env,  \* the environment of the host process
    spawned,        \* the child the constructor spawned, or the error thrown
    utils_host,     \* what find_vst_host(image_arch) gave
    utils_env       \* what the set_wineprefix() of utils.cpp gave

spawnVars ==
    <<spawn_pc, image_arch, dll_exists, host_beside, host_on_path, dosdevices,
      inherited_env, spawned, utils_host, utils_env>>

\* generate_endpoint_name in the bridge instances that load the same plugin,
\* and the endpoints in the temporary directory
VARIABLES
    instances,          \* the bridge instances that are being constructed
    fs_paths,           \* the endpoints that exist in the filesystem
    gen_pc,             \* instance -> "absent", "draw", "check", "returned",
                        \*             "listening", "failed", "accepted"
    candidate_endpoint, \* instance -> the random identifier of its candidate
    discarded           \* instance -> the candidates its loop went past

endpointVars == <<instances, fs_paths, gen_pc, candidate_endpoint, discarded>>

\* forwarded dispatch calls the host makes from several of its threads, and
\* the dispatch socket they share
VARIABLES
    send_pc,            \* host thread -> "idle", "waiting", "returned"
    send_op,            \* host thread -> the opcode its call sent (-1: none)
    send_got,           \* host thread -> the thread whose request the
                        \*                response it consumed answers (0: none)
    host_vst_dispatch   \* the dispatch socket: the requests and the responses
                        \* in flight

dispatchVars == <<send_pc, send_op, send_got, host_vst_dispatch>>

\* MainContext: the steady clock, the events timer and the pump that
\* async_handle_events starts
VARIABLES
    clock,              \* std::chrono::steady_clock::now(), in milliseconds
    events_timer,       \* its expiry and the waits that have not completed:
                        \* "pending" or "aborted"
    context_stopped,    \* MainContext::stop() was called
    pump                \* where the pump is, and what it has done so far

timerVars == <<clock, events_timer, context_stopped, pump>>

\* everything that HostBridge and the runner leave alone
nonBridgeVars ==
    <<codecVars, converterVars, archVars, spawnVars, endpointVars,
      dispatchVars, timerVars>>

\* everything that the codec leaves alone
nonCodecVars ==
    <<bridgeVars, converterVars, archVars, spawnVars, endpointVars,
      dispatchVars, timerVars>>

\* everything that the data converter leaves alone
nonConverterVars ==
    <<bridgeVars, codecVars, archVars, spawnVars, endpointVars,
      dispatchVars, timerVars>>

\* everything that find_vst_architecture leaves alone
nonArchVars ==
    <<bridgeVars, codecVars, converterVars, spawnVars, endpointVars,
      dispatchVars, timerVars>>

\* everything that the discovery and the spawn leave alone
nonSpawnVars ==
    <<bridgeVars, codecVars, converterVars, archVars, endpointVars,
      dispatchVars, timerVars>>

\* everything that the endpoint name generation leaves alone
nonEndpointVars ==
    <<bridgeVars, codecVars, converterVars, archVars, spawnVars,
      dispatchVars, timerVars>>

vars ==
    <<bridgeVars, codecVars, converterVars, archVars, spawnVars,
      endpointVars, dispatchVars, timerVars>>

(***************************************************************************)
(* The event codec: events, their payloads and the wire frame.             *)
(***************************************************************************)
\* byte strings of at most MaxLen bytes, each byte in 0..MaxByte
ByteStrings == UNION {[1..n -> 0..MaxByte] : n \in 0..MaxLen}

\* EventPayload: a closed variant over Empty, String, Buffer, WantsString
Payloads ==
    {[type |-> "Empty", bytes |-> <<>>], [type |-> "WantsString", bytes |-> <<>>]}
    \cup {[type |-> "String", bytes |-> b] : b \in ByteStrings}
    \cup {[type |-> "Buffer", bytes |-> b] : b \in ByteStrings}

\* Event: opcode, index, value, option and a payload
Events ==
    [opcode : -1..MaxOpcode, index : {-1, 0}, value : {-1, 0},
     option : {0, 1}, payload : Payloads]

NoEvent ==
    [opcode |-> 0, index |-> 0, value |-> 0, option |-> 0,
     payload |-> [type |-> "Empty", bytes |-> <<>>]]

\* the tags of the wire frame's payload: {none, string, buffer}
WireTags == {"none", "string", "buffer"}

\* a signed integer as n bytes, least significant first (two's complement)
RECURSIVE SignedToBytes(_, _)
SignedToBytes(x, n) ==
    IF n = 0 THEN <<>> ELSE <<x % 256>> \o SignedToBytes(x \div 256, n - 1)

\* the signed integer that bytes, least significant first, stand for
RECURSIVE BytesToSigned(_)
BytesToSigned(bs) ==
    IF Len(bs) = 1
    THEN (IF bs[1] >= 128 THEN bs[1] - 256 ELSE bs[1])
    ELSE bs[1] + 256 * BytesToSigned(Tail(bs))

\* the tagged payloads a frame can carry for a payload: the tag, then the
\* length-prefixed bytes for string and buffer.  The frame has no tag of its
\* own for WantsString: it goes out under one of the three tags, with no bytes
EncodePayload(payload) ==
    CASE payload.type = "Empty" ->
           {[tag |-> "none", len |-> 0, bytes |-> <<>>]}
      [] payload.type = "String" ->
           {[tag |-> "string", len |-> Len(payload.bytes),
             bytes |-> payload.bytes]}
      [] payload.type = "Buffer" ->
           {[tag |-> "buffer", len |-> Len(payload.bytes),
             bytes |-> payload.bytes]}
      [] payload.type = "WantsString" ->
           {[tag |-> t, len |-> 0, bytes |-> <<>>] : t \in WireTags}

\* the payload a tagged payload of a frame stands for
DecodePayload(tagged) ==
    CASE tagged.tag = "none" -> [type |-> "Empty", bytes |-> <<>>]
      [] tagged.tag = "string" ->
           [type |-> "String", bytes |-> SubSeq(tagged.bytes, 1, tagged.len)]
      [] tagged.tag = "buffer" ->
           [type |-> "Buffer", bytes |-> SubSeq(tagged.bytes, 1, tagged.len)]

\* the wire frames of an event: opcode and index as 4 bytes, value as a
\* word of 8 bytes, option as 4 bytes, then the tagged payload
EncodeEvent(event) ==
    {[opcode |-> SignedToBytes(event.opcode, 4),
      index |-> SignedToBytes(event.index, 4),
      value |-> SignedToBytes(event.value, 8),
      option |-> SignedToBytes(event.option, 4),
      payload |-> tp] : tp \in EncodePayload(event.payload)}

\* the event a wire frame stands for
DecodeEvent(frame) ==
    [opcode |-> BytesToSigned(frame.opcode),
     index |-> BytesToSigned(frame.index),
     value |-> BytesToSigned(frame.value),
     option |-> BytesToSigned(frame.option),
     payload |-> DecodePayload(frame.payload)]

\* the codec is not exercised
CodecIdle ==
    /\ codec_pc = "input"
    /\ ev_in = NoEvent
    /\ ev_frame = <<>>
    /\ ev_out = NoEvent

\* the sender serializes the event into a frame
CodecEncode ==
    /\ codec_pc = "input"
    /\ ev_frame' \in EncodeEvent(ev_in)
    /\ codec_pc' = "encoded"
    /\ UNCHANGED <<ev_in, ev_out>>
    /\ UNCHANGED nonCodecVars

\* the receiver deserializes the frame
CodecDecode ==
    /\ codec_pc = "encoded"
    /\ ev_out' = DecodeEvent(ev_frame)
    /\ codec_pc' = "decoded"
    /\ UNCHANGED <<ev_in, ev_frame>>
    /\ UNCHANGED nonCodecVars

(***************************************************************************)
(* DefaultDataConverter: the fallback classification of a data pointer and *)
(* the write-back of a response.                                           *)
(***************************************************************************)
\* the memory behind a data pointer, as far as the model looks: MaxLen bytes
\* of content, a terminator and one byte behind it
MemLen == MaxLen + 2

\* memory that holds a null terminated string, as the callers of the VST2
\* ABI hand it over
Memories ==
    {m \in [1..MemLen -> 0..MaxByte] : \E i \in 1..MemLen : m[i] = 0}

\* the arguments read() ignores
ConverterArgs == [opcode : Opcodes, index : {-1, 0}, value : {-1, 0}]

\* a data pointer: the null pointer, or a pointer to memory
NullPointer == [null |-> TRUE, mem |-> <<>>]

PointerTo(mem) == [null |-> FALSE, mem |-> mem]

NoPayload == [type |-> "none", bytes |-> <<>>]

\* std::string(c_string): the bytes up to, not including, the first zero
CString(mem) ==
    LET first_zero == CHOOSE i \in 1..Len(mem) :
                          /\ mem[i] = 0
                          /\ \A j \in 1..(i - 1) : mem[j] # 0
    IN  SubSeq(mem, 1, first_zero - 1)

\* EventPayload DefaultDataConverter::read(opcode, index, value, data)
DefaultDataConverter_readEmptyString(opcode, index, value, data) ==
    IF data.null
    THEN [type |-> "Empty", bytes |-> <<>>]
    ELSE [type |-> "String", bytes |-> CString(data.mem)]

DefaultDataConverter_read(opcode, index, value, data) ==
    IF data.null
    THEN [type |-> "Empty", bytes |-> <<>>]
    ELSE IF data.mem[1] # 0
         THEN [type |-> "String", bytes |-> CString(data.mem)]
         ELSE [type |-> "WantsString", bytes |-> <<>>]

\* void DefaultDataConverter::write(opcode, data, response): the memory
\* behind data afterwards.  std::copy(s.begin(), s.end(), output) and then
\* output[s.size()] = 0 for a string, nothing for every other alternative
DefaultDataConverter_writeNoTerminator(opcode, data, response) ==
    IF response.type = "String"
    THEN PointerTo([i \in 1..Len(data.mem) |->
            IF i <= Len(response.bytes) THEN response.bytes[i]
            ELSE data.mem[i]])
    ELSE data

DefaultDataConverter_writeTerminatorOffByOne(opcode, data, response) ==
    IF response.type = "String"
    THEN PointerTo([i \in 1..Len(data.mem) |->
            IF i <= Len(response.bytes) THEN response.bytes[i]
            ELSE IF i = Len(response.bytes) + 2 THEN 0
            ELSE data.mem[i]])
    ELSE data

DefaultDataConverter_write(opcode, data, response) ==
    IF response.type = "String"
    THEN PointerTo([i \in 1..Len(data.mem) |->
            IF i <= Len(response.bytes) THEN response.bytes[i]
            ELSE IF i = Len(response.bytes) + 1 THEN 0
            ELSE data.mem[i]])
    ELSE data

\* the converter is not exercised
ConverterIdle ==
    /\ conv_pc = "input"
    /\ conv_args = [opcode |-> 0, index |-> 0, value |-> 0]
    /\ conv_data = NullPointer
    /\ conv_before = NullPointer
    /\ conv_response = NoPayload
    /\ conv_payload = NoPayload

\* send_event / passthrough_event classify the data pointer of a call
ConverterRead ==
    /\ conv_pc \in {"input", "written"}
    /\ conv_payload' = DefaultDataConverter_read(conv_args.opcode,
                           conv_args.index, conv_args.value, conv_data)
    /\ conv_pc' = "read"
    /\ UNCHANGED <<conv_args, conv_data, conv_before, conv_response>>
    /\ UNCHANGED nonConverterVars

\* the response of a call is written back through the data pointer.  The
\* string alternative dereferences the pointer: on a null pointer that is a
\* write through address 0
ConverterWrite(response) ==
    /\ conv_pc = "input"
    /\ conv_response' = response
    /\ conv_before' = conv_data
    /\ \/ /\ conv_data.null
          /\ response.type = "String"
          /\ conv_pc' = "crashed"
          /\ UNCHANGED conv_data
       \/ /\ conv_data.null
          /\ response.type # "String"
          /\ conv_pc' = "written"
          /\ UNCHANGED conv_data
       \/ /\ ~conv_data.null
          /\ conv_data' = DefaultDataConverter_write(conv_args.opcode,
                              conv_data, response)
          /\ conv_pc' = "written"
    /\ UNCHANGED <<conv_args, conv_payload>>
    /\ UNCHANGED nonConverterVars

(***************************************************************************)
(* find_vst_architecture: sniffing the word size of a plugin image.        *)
(***************************************************************************)
\* constexpr char expected_pe_signature[4] = {'P', 'E', '\\0', '\\0'}
ExpectedSignature == <<80, 69, 0, 0>>

\* machine types of other architectures (ARM Thumb-2, ARM64)
OtherMachineTypes == {452, 43620}

MachineTypes ==
    {IMAGE_FILE_MACHINE_I386, IMAGE_FILE_MACHINE_AMD64,
     IMAGE_FILE_MACHINE_UNKNOWN} \cup OtherMachineTypes

\* an unsigned integer as n bytes, least significant first
RECURSIVE UnsignedToBytes(_, _)
UnsignedToBytes(x, n) ==
    IF n = 0 THEN <<>> ELSE <<x % 256>> \o UnsignedToBytes(x \div 256, n - 1)

\* the unsigned integer that bytes, least significant first, stand for
RECURSIVE LittleEndian(_)
LittleEndian(bs) ==
    IF bs = <<>> THEN 0 ELSE bs[1] + 256 * LittleEndian(Tail(bs))

\* the offsets an image's PE header starts at: behind the offset field
HeaderOffsets == {PeOffsetField + 4 + k : k \in 0..MaxStub}

\* the four bytes found where the signature belongs
Signatures == {ExpectedSignature, <<80, 69, 0, 1>>, <<77, 90, 0, 0>>}

\* an image: the offset field at 0x3c, the signature and the machine type
\* at the offset, one byte behind them, zeroes elsewhere
FullImage(offset, signature, machine_type) ==
    [i \in 1..(offset + 7) |->
        IF i > PeOffsetField /\ i <= PeOffsetField + 4
        THEN UnsignedToBytes(offset, 4)[i - PeOffsetField]
        ELSE IF i > offset /\ i <= offset + 4
        THEN signature[i - offset]
        ELSE IF i > offset + 4 /\ i <= offset + 6
        THEN UnsignedToBytes(machine_type, 2)[i - offset - 4]
        ELSE 0]

\* the files at plugin_path: no file, or the first bytes of an image
PluginFiles ==
    {[exists |-> FALSE, bytes |-> <<>>]} \cup
    UNION {{[exists |-> TRUE, bytes |-> SubSeq(FullImage(o, sig, m), 1, len)] :
               len \in 0..(o + 7)} :
           o \in HeaderOffsets, sig \in Signatures, m \in MachineTypes}

Architecture(arch) == [kind |-> arch, what |-> "none"]

\* throw std::runtime_error(...)
RuntimeError(what) == [kind |-> "error", what |-> what]

NoResult == [kind |-> "none", what |-> "none"]

\* the values the three locals hold before anything is read into them:
\* pe_signature_offset, pe_signature and machine_type are not initialized
Uninitialized ==
    [pe_signature_offset : {<<0, 0, 0, 0>>, <<64, 0, 0, 0>>},
     pe_signature : {<<0, 0, 0, 0>>, ExpectedSignature},
     machine_type : {UnsignedToBytes(m, 2) : m \in MachineTypes}]

\* std::ifstream file(plugin_path, ...): the stream fails right away when the
\* file cannot be opened
OpenStream(file) == [ok |-> file.exists, pos |-> 0]

\* file.seekg(pos): does nothing on a stream that has failed
Seekg(stream, pos) ==
    IF stream.ok THEN [stream EXCEPT !.pos = pos] ELSE stream

\* file.read(&local, n): the bytes of the file that are there go into the
\* local, the rest of the local keeps what it held; a short read makes the
\* stream fail, and a failed stream reads nothing
ReadInto(file, stream, local) ==
    LET n == Len(local)
        avail == IF ~stream.ok \/ stream.pos >= Len(file.bytes) THEN 0
                 ELSE IF stream.pos + n <= Len(file.bytes) THEN n
                 ELSE Len(file.bytes) - stream.pos
    IN  [local |-> [i \in 1..n |->
                      IF i <= avail THEN file.bytes[stream.pos + i]
                      ELSE local[i]],
         stream |-> [ok |-> stream.ok /\ avail = n, pos |-> stream.pos + avail]]

\* switch (machine_type) and the throw behind it
MachineTypeToArchitectureDefault64(machine_type) ==
    IF machine_type = IMAGE_FILE_MACHINE_I386
    THEN Architecture("vst_32")
    ELSE Architecture("vst_64")

MachineTypeToArchitecture(machine_type) ==
    CASE machine_type = IMAGE_FILE_MACHINE_I386 -> Architecture("vst_32")
      [] machine_type = IMAGE_FILE_MACHINE_AMD64 -> Architecture("vst_64")
      [] machine_type = IMAGE_FILE_MACHINE_UNKNOWN -> Architecture("vst_64")
      [] OTHER -> RuntimeError("neither_x86_nor_x86_64")

\* PluginArchitecture find_vst_architecture(fs::path plugin_path), with the
\* values its locals start out with.  The state of the stream is never
\* looked at
find_vst_architecture(file, uninit) ==
    LET opened == Seekg(OpenStream(file), PeOffsetField)
        offset == ReadInto(file, opened, uninit.pe_signature_offset)
        at_header == Seekg(offset.stream, LittleEndian(offset.local))
        signature == ReadInto(file, at_header, uninit.pe_signature)
        machine == ReadInto(file, signature.stream, uninit.machine_type)
    IN  IF signature.local # ExpectedSignature
        THEN RuntimeError("not_a_valid_dll")
        ELSE MachineTypeToArchitecture(LittleEndian(machine.local))

\* find_vst_architecture is not called
ArchIdle ==
    /\ arch_pc = "input"
    /\ pe_file = [exists |-> FALSE, bytes |-> <<>>]
    /\ arch_result = NoResult

FindVstArchitecture ==
    /\ arch_pc = "input"
    /\ \E uninit \in Uninitialized :
         arch_result' = find_vst_architecture(pe_file, uninit)
    /\ arch_pc' = "done"
    /\ UNCHANGED pe_file
    /\ UNCHANGED nonArchVars

(***************************************************************************)
(* Discovery: the runner binary, the plugin image, the Wine prefix, and    *)
(* the spawn of the runner.  Two generations of these functions are in the *)
(* sources: the ones in host-bridge.cpp, which the HostBridge constructor  *)
(* calls, and the ones in utils.cpp.                                       *)
(***************************************************************************)
\* constexpr auto yabridge_wine_host_name = "yabridge-host.exe"
yabridge_wine_host_name == "yabridge-host.exe"

\* the name of the 32-bit runner, from the generated config.h
yabridge_wine_host_name_32bit == "yabridge-host-32.exe"

HostNames == {yabridge_wine_host_name, yabridge_wine_host_name_32bit}

\* Paths along the directories above the shim are numbered: the empty path,
\* then the root directory, down to the shim's directory and the plugin
\* image in it.  (The shim and the image are in the same directory: no
\* symbolic links.)
EmptyPath == 0

RootDirectory == EmptyPath + 1

ShimDirectory == RootDirectory + MaxDepth

PluginImage == ShimDirectory + 1

\* a Wine prefix that is not above the shim
PrefixElsewhere == PluginImage + 1

\* path.parent_path(): the parent of the root directory is the empty path
ParentPath(path) == path - 1

\* an entry of the environment: not set, or set to a path
NotSet == [set |-> FALSE, value |-> EmptyPath]

SetTo(path) == [set |-> TRUE, value |-> path]

\* the environments the host process may run in
Environments ==
    [WINEPREFIX : {NotSet, SetTo(PrefixElsewhere)},
     WINELOADER : {NotSet, SetTo(PrefixElsewhere)}]

NoEnvironment == [WINEPREFIX |-> NotSet, WINELOADER |-> NotSet]

\* std::optional<fs::path>
Nullopt == [has_value |-> FALSE, value |-> EmptyPath]

Optional(path) == [has_value |-> TRUE, value |-> path]

FoundHost(name, where) == [kind |-> "path", name |-> name, where |-> where]

HostError(what) == [kind |-> "error", name |-> what, where |-> "none"]

NoHost == [kind |-> "none", name |-> "none", where |-> "none"]

\* the lookup both find_wine_vst_host and find_vst_host do for a name: next
\* to the shim, then bp::search_path, else throw
LocateHost(host_name, beside, on_path) ==
    IF host_name \in beside THEN FoundHost(host_name, "beside")
    ELSE IF host_name \in on_path THEN FoundHost(host_name, "search_path")
    ELSE HostError("could_not_locate_host")

\* fs::path find_wine_vst_host() of host-bridge.cpp: one runner
find_wine_vst_host(beside, on_path) ==
    LocateHost(yabridge_wine_host_name, beside, on_path)

\* fs::path find_vst_host(PluginArchitecture plugin_arch) of utils.cpp
find_vst_host(plugin_arch, beside, on_path) ==
    LocateHost(IF plugin_arch = "vst_32" THEN yabridge_wine_host_name_32bit
               ELSE yabridge_wine_host_name,
               beside, on_path)

\* the walk up the parent directories: the first one that holds a directory
\* named `dosdevices`
RECURSIVE FirstParentWithDosdevices(_, _)
FirstParentWithDosdevices(path, marked) ==
    IF path = EmptyPath THEN Nullopt
    ELSE IF path \in marked THEN Optional(path)
    ELSE FirstParentWithDosdevices(ParentPath(path), marked)

\* std::optional<fs::path> find_wineprefix() of utils.cpp: starts at the
\* plugin image
find_wineprefix(marked) == FirstParentWithDosdevices(PluginImage, marked)

\* bp::environment set_wineprefix() of host-bridge.cpp: starts at the shim's
\* directory and never looks at the inherited value
HostBridge_set_wineprefix(env, marked) ==
    LET found == FirstParentWithDosdevices(ShimDirectory, marked) IN
      IF found.has_value
      THEN [env EXCEPT !.WINEPREFIX = SetTo(found.value)]
      ELSE env

\* bp::environment set_wineprefix() of utils.cpp
set_wineprefix(env, marked) ==
    IF env.WINEPREFIX.set
    THEN env
    ELSE LET wineprefix_path == find_wineprefix(marked) IN
           IF wineprefix_path.has_value
           THEN [env EXCEPT !.WINEPREFIX = SetTo(wineprefix_path.value)]
           ELSE env

Child(exe, plugin_path, env) ==
    [kind |-> "child", exe |-> exe, plugin |-> plugin_path, env |-> env,
     what |-> "none"]

SpawnError(what) ==
    [kind |-> "error", exe |-> NoHost, plugin |-> EmptyPath,
     env |-> NoEnvironment, what |-> what]

NotSpawned ==
    [kind |-> "none", exe |-> NoHost, plugin |-> EmptyPath,
     env |-> NoEnvironment, what |-> "none"]

\* vst_host(find_wine_vst_host(), find_vst_plugin(), socket_endpoint.path(),
\* bp::env = set_wineprefix()): the child, or the error one of the arguments
\* threw (the arguments are evaluated in no specified order)
SpawnVstHost(beside, on_path, dll, env, marked) ==
    LET host == find_wine_vst_host(beside, on_path) IN
      IF host.kind = "path" /\ dll
      THEN {Child(host, PluginImage, HostBridge_set_wineprefix(env, marked))}
      ELSE (IF host.kind = "error" THEN {SpawnError(host.name)} ELSE {})
           \cup (IF dll THEN {} ELSE {SpawnError("dll_does_not_exist")})

\* nothing is looked up or spawned
SpawnIdle ==
    /\ spawn_pc = "input"
    /\ image_arch = "vst_64"
    /\ dll_exists = TRUE
    /\ host_beside = {}
    /\ host_on_path = {}
    /\ dosdevices = {}
    /\ inherited_env = NoEnvironment
    /\ spawned = NotSpawned
    /\ utils_host = NoHost
    /\ utils_env = NoEnvironment

\* the member initializer of vst_host in the HostBridge constructor
HostBridgeSpawn ==
    /\ spawn_pc = "input"
    /\ spawned' \in SpawnVstHost(host_beside, host_on_path, dll_exists,
                                  inherited_env, dosdevices)
    /\ spawn_pc' = "done"
    /\ UNCHANGED <<image_arch, dll_exists, host_beside, host_on_path,
                   dosdevices, inherited_env, utils_host, utils_env>>
    /\ UNCHANGED nonSpawnVars

\* find_vst_host(plugin_arch) and set_wineprefix() of utils.cpp, for the
\* same plugin and environment
UtilsDiscovery ==
    /\ utils_host = NoHost
    /\ dll_exists
    /\ utils_host' = find_vst_host(image_arch, host_beside, host_on_path)
    /\ utils_env' = set_wineprefix(inherited_env, dosdevices)
    /\ UNCHANGED <<spawn_pc, image_arch, dll_exists, host_beside,
                   host_on_path, dosdevices, inherited_env, spawned>>
    /\ UNCHANGED nonSpawnVars

(***************************************************************************)
(* generate_endpoint_name and the creation of the endpoint.  The plugin's  *)
(* name and the temporary directory are the same for every instance, so an *)
(* endpoint path is told by its random identifier.                         *)
(***************************************************************************)
\* the characters std::sample draws from: alphanumeric_characters up to
\* `alphanumeric_characters + strlen(alphanumeric_characters) - 1`, which
\* leaves out the last one.  Characters are named by their position
SampleRange == 1..(MaxAlphabet - 1)

\* the elements of a set of positions in ascending order
RECURSIVE Ascending(_)
Ascending(set) ==
    IF set = {} THEN <<>>
    ELSE LET least == CHOOSE x \in set : \A y \in set : x <= y
         IN  <<least>> \o Ascending(set \ {least})

\* std::sample(first, last, out, 8, rng): RandomIdLength characters of the
\* range, each at most once, in the order they have in the range
RandomIds ==
    {Ascending(drawn) :
        drawn \in {t \in SUBSET SampleRange : Cardinality(t) = RandomIdLength}}

InstanceIds == {1, 2}

\* } while (fs::exists(candidate_endpoint));
LoopAgainNever(exists) == FALSE

LoopAgain(exists) == exists

\* no instance generates a name
EndpointIdle ==
    /\ instances = {}
    /\ fs_paths = {}
    /\ gen_pc = [i \in InstanceIds |-> "absent"]
    /\ candidate_endpoint = [i \in InstanceIds |-> <<>>]
    /\ discarded = [i \in InstanceIds |-> {}]

\* the body of the do loop: a random identifier is drawn and the candidate
\* path is built from it
GenerateDraw(i) ==
    /\ gen_pc[i] = "draw"
    /\ \E random_id \in RandomIds :
         candidate_endpoint' = [candidate_endpoint EXCEPT ![i] = random_id]
    /\ gen_pc' = [gen_pc EXCEPT ![i] = "check"]
    /\ UNCHANGED <<instances, fs_paths, discarded>>
    /\ UNCHANGED nonEndpointVars

\* the condition of the do loop, and `return candidate_endpoint` behind it
GenerateCheck(i) ==
    /\ gen_pc[i] = "check"
    /\ IF LoopAgain(candidate_endpoint[i] \in fs_paths)
       THEN /\ gen_pc' = [gen_pc EXCEPT ![i] = "draw"]
            /\ discarded' = [discarded EXCEPT
                                ![i] = @ \cup {candidate_endpoint[i]}]
       ELSE /\ gen_pc' = [gen_pc EXCEPT ![i] = "returned"]
            /\ UNCHANGED discarded
    /\ UNCHANGED <<instances, fs_paths, candidate_endpoint>>
    /\ UNCHANGED nonEndpointVars

\* socket_acceptor(io_context, socket_endpoint): the acceptor binds the
\* endpoint, which creates the socket in the filesystem; binding a path
\* that exists fails and the exception leaves the constructor
CreateAcceptor(i) ==
    /\ gen_pc[i] = "returned"
    /\ IF candidate_endpoint[i] \in fs_paths
       THEN /\ gen_pc' = [gen_pc EXCEPT ![i] = "failed"]
            /\ UNCHANGED fs_paths
       ELSE /\ gen_pc' = [gen_pc EXCEPT ![i] = "listening"]
            /\ fs_paths' = fs_paths \cup {candidate_endpoint[i]}
    /\ UNCHANGED <<instances, candidate_endpoint, discarded>>
    /\ UNCHANGED nonEndpointVars

\* the host threads that call the dispatcher
HostThreads == {1, 2}

\* no host thread is inside a forwarded dispatch call
DispatchIdle ==
    /\ send_pc = [t \in HostThreads |-> "idle"]
    /\ send_op = [t \in HostThreads |-> -1]
    /\ send_got = [t \in HostThreads |-> 0]
    /\ host_vst_dispatch = [requests |-> <<>>, responses |-> <<>>]

\* socket_acceptor.accept(...), three times (lines 85-87): the connections are
\* accepted.  Nothing in the constructor removes the endpoint from the
\* filesystem
AcceptConnections(i) ==
    /\ gen_pc[i] = "listening"
    /\ gen_pc' = [gen_pc EXCEPT ![i] = "accepted"]
    /\ UNCHANGED <<instances, fs_paths, candidate_endpoint, discarded>>
    /\ UNCHANGED nonEndpointVars

\* the timer is constructed and async_handle_events has not been called
TimerIdle ==
    /\ clock = 0
    /\ events_timer = [expiry |-> 0, waits |-> <<>>]
    /\ context_stopped = FALSE
    /\ pump = [pc |-> "not_started", handler_runs |-> 0, expired |-> 0,
               scheduled |-> 0, errored |-> FALSE, from |-> 0, at |-> 0]

NoCall == [op |-> -1, sent |-> 0, yielded |-> -1, ret |-> -1, outcome |-> "none"]

Frame(kind, val) == [kind |-> kind, val |-> val]

\* the function-pointer slots of the AEffect and the proxy each one is set to
ProxySlots ==
    [dispatcher |-> "dispatch_proxy", process |-> "process_proxy",
     setParameter |-> "setParameter_proxy",
     getParameter |-> "getParameter_proxy",
     processReplacing |-> "process_replacing_proxy"]

\* the AEffect before the constructor body has touched it
EmptyAEffect ==
    [ptr3 |-> "null", slots |-> [slot \in DOMAIN ProxySlots |-> "null"],
     filled |-> FALSE]

\* plugin.ptr3 = this; plugin.dispatcher = dispatch_proxy; ... (lines 91-96)
InstallProxiesWithoutBackPointer(obj) == [obj EXCEPT !.slots = ProxySlots]

InstallProxies(obj) == [obj EXCEPT !.ptr3 = "this", !.slots = ProxySlots]

\* HostBridge& get_bridge_instance(const AEffect& plugin): the bridge the
\* proxies call into
get_bridge_instance(obj) == obj.ptr3

BridgeInit ==
    /\ pc_ctor = "entry"
    /\ bridge = "none"
    /\ main_ret = "none"
    /\ host_process = "running"
    /\ socket_acceptor = "closed"
    /\ n_connected = 0
    /\ host_sock = [c \in Chan |-> 0]
    /\ peer_sock = [c \in Chan |-> 0]
    /\ h2p = [i \in 1..3 |-> <<>>]
    /\ p2h = [i \in 1..3 |-> <<>>]
    /\ plugin = EmptyAEffect
    /\ removeme = "none"
    /\ vst_host = "not_spawned"
    /\ peer_pc = "connecting"
    /\ peer_ctx = "init"
    /\ n_callbacks = 0
    /\ call_pc = "idle"
    /\ call_op = -1
    /\ call_sent = 0
    /\ n_calls = 0
    /\ last_call = NoCall
    /\ sent_log = <<>>
    /\ cb_serviced = 0
    /\ cb_blocked = FALSE
    /\ cb_early = FALSE
    /\ misrouted = FALSE
    /\ freed_reads = 0
    /\ deletes = 0
    /\ descriptor_reads = 0
    /\ in_callback = <<>>
    /\ socket_endpoint = 0
    /\ runner_endpoint = 0

Init ==
    /\ BridgeInit
    /\ peer_order = DocumentedOrder
    /\ CodecIdle
    /\ ConverterIdle
    /\ ArchIdle
    /\ SpawnIdle
    /\ EndpointIdle
    /\ DispatchIdle
    /\ TimerIdle

\* any event is handed to the codec; the bridge stays as constructed
CodecInit ==
    /\ BridgeInit
    /\ peer_order = DocumentedOrder
    /\ codec_pc = "input"
    /\ ev_in \in Events
    /\ ev_frame = <<>>
    /\ ev_out = NoEvent
    /\ ConverterIdle
    /\ ArchIdle
    /\ SpawnIdle
    /\ EndpointIdle
    /\ DispatchIdle
    /\ TimerIdle

\* any call arguments and any data pointer are handed to the converter; the
\* bridge stays as constructed
ConverterInit ==
    /\ BridgeInit
    /\ peer_order = DocumentedOrder
    /\ CodecIdle
    /\ conv_pc = "input"
    /\ conv_args \in ConverterArgs
    /\ conv_data \in {NullPointer} \cup {PointerTo(m) : m \in Memories}
    /\ conv_before = NullPointer
    /\ conv_response = NoPayload
    /\ conv_payload = NoPayload
    /\ ArchIdle
    /\ SpawnIdle
    /\ EndpointIdle
    /\ DispatchIdle
    /\ TimerIdle

\* any file is at the plugin's path; everything else stays as constructed
ArchInit ==
    /\ BridgeInit
    /\ peer_order = DocumentedOrder
    /\ CodecIdle
    /\ ConverterIdle
    /\ arch_pc = "input"
    /\ pe_file \in PluginFiles
    /\ arch_result = NoResult
    /\ SpawnIdle
    /\ EndpointIdle
    /\ DispatchIdle
    /\ TimerIdle

\* any plugin, any set of installed runners, any Wine prefix above the shim
\* and any environment; everything else stays as constructed
SpawnInit ==
    /\ BridgeInit
    /\ peer_order = DocumentedOrder
    /\ CodecIdle
    /\ ConverterIdle
    /\ ArchIdle
    /\ spawn_pc = "input"
    /\ image_arch \in {"vst_32", "vst_64"}
    /\ dll_exists \in BOOLEAN
    /\ host_beside \in SUBSET HostNames
    /\ host_on_path \in SUBSET HostNames
    /\ dosdevices \in SUBSET (RootDirectory..ShimDirectory)
    /\ inherited_env \in Environments
    /\ spawned = NotSpawned
    /\ utils_host = NoHost
    /\ utils_env = NoEnvironment
    /\ EndpointIdle
    /\ DispatchIdle
    /\ TimerIdle

\* the given instances start generating a name while some endpoints exist;
\* everything else stays as constructed
EndpointInitFor(active) ==
    /\ BridgeInit
    /\ peer_order = DocumentedOrder
    /\ CodecIdle
    /\ ConverterIdle
    /\ ArchIdle
    /\ SpawnIdle
    /\ instances = active
    /\ fs_paths \in {e \in SUBSET RandomIds : Cardinality(e) <= MaxExisting}
    /\ gen_pc = [i \in InstanceIds |-> IF i \in active THEN "draw" ELSE "absent"]
    /\ candidate_endpoint = [i \in InstanceIds |-> <<>>]
    /\ discarded = [i \in InstanceIds |-> {}]
    /\ DispatchIdle
    /\ TimerIdle

PermInit ==
    /\ BridgeInit
    /\ peer_order \in ConnectOrders
    /\ CodecIdle
    /\ ConverterIdle
    /\ ArchIdle
    /\ SpawnIdle
    /\ EndpointIdle
    /\ DispatchIdle
    /\ TimerIdle

(***************************************************************************)
(* Helpers.                                                                *)
(***************************************************************************)
HostUp == host_process = "running"

\* connections the constructor has accepted so far
NAccepted == Cardinality({c \in Chan : host_sock[c] # 0})

\* the session is Active: VSTPluginMain has handed out the descriptor of a
\* live bridge
Active == pc_ctor = "done" /\ bridge = "alive" /\ HostUp

\* the names generate_endpoint_name can return
EndpointNames == {1, 2}

\* what the constructor does after each of its steps (lines 70-108) and
\* what VSTPluginMain does after the constructor
CtorNextPcReadFirst(pc) ==
    CASE pc = "entry" -> "init_endpoint"
      [] pc = "init_endpoint" -> "init_spawn"
      [] pc = "init_spawn" -> "accept"
      [] pc = "accept" -> "install"
      [] pc = "install" -> "read_aeffect"
      [] pc = "read_aeffect" -> "start_thread"
      [] pc = "start_thread" -> "return"

CtorNextPcNoThread(pc) ==
    CASE pc = "entry" -> "init_endpoint"
      [] pc = "init_endpoint" -> "init_spawn"
      [] pc = "init_spawn" -> "accept"
      [] pc = "accept" -> "install"
      [] pc = "install" -> "read_aeffect"
      [] pc = "start_thread" -> "read_aeffect"
      [] pc = "read_aeffect" -> "return"

CtorNextPcSpawnFirst(pc) ==
    CASE pc = "entry" -> "init_spawn"
      [] pc = "init_spawn" -> "init_endpoint"
      [] pc = "init_endpoint" -> "accept"
      [] pc = "accept" -> "install"
      [] pc = "install" -> "start_thread"
      [] pc = "start_thread" -> "read_aeffect"
      [] pc = "read_aeffect" -> "return"

CtorNextPcThreadFirst(pc) ==
    CASE pc = "entry" -> "init_endpoint"
      [] pc = "init_endpoint" -> "init_spawn"
      [] pc = "init_spawn" -> "accept"
      [] pc = "accept" -> "start_thread"
      [] pc = "start_thread" -> "install"
      [] pc = "install" -> "read_aeffect"
      [] pc = "read_aeffect" -> "return"

CtorNextPc(pc) ==
    CASE pc = "entry" -> "init_endpoint"
      [] pc = "init_endpoint" -> "init_spawn"
      [] pc = "init_spawn" -> "accept"
      [] pc = "accept" -> "install"
      [] pc = "install" -> "start_thread"
      [] pc = "start_thread" -> "read_aeffect"
      [] pc = "read_aeffect" -> "return"

\* read_object(socket, object): the object with the data read into it
ReadObject(obj, frame) == [obj EXCEPT !.filled = TRUE]

\* what destroying the bridge's members can do while the callback thread is
\* joinable.  The thread is created at line 101 and nothing in the sources
\* joins or detaches it; the declaration of `removeme` is not part of the
\* sources.  A std::thread member that is destroyed while joinable calls
\* std::terminate; a thread object the bridge does not own is left running on
\* the released bridge.
DeleteOutcomes == {"terminate", "thread_left_running"}

\* the destruction of the bridge's members: the sockets and the acceptor are
\* closed and Boost.Process kills the child
DestroyMembers ==
    /\ socket_acceptor' = "closed"
    /\ host_sock' = [c \in Chan |-> 0]
    /\ vst_host' = IF vst_host = "running" THEN "exited" ELSE vst_host
    /\ peer_pc' = IF vst_host = "running" THEN "gone" ELSE peer_pc

\* an exception leaves the constructor: the members are destroyed, the memory
\* is released and VSTPluginMain's handler returns a null pointer
CtorThrow ==
    \/ /\ removeme = "none"
       /\ DestroyMembers
       /\ bridge' = "none"
       /\ pc_ctor' = "failed"
       /\ main_ret' = "null"
       /\ UNCHANGED host_process
    \/ /\ removeme = "running"
       /\ \E o \in DeleteOutcomes :
            \/ /\ o = "terminate"
               /\ host_process' = "terminated"
               /\ pc_ctor' = "aborted"
               /\ UNCHANGED <<socket_acceptor, host_sock, vst_host, peer_pc, bridge,
                              main_ret>>
            \/ /\ o = "thread_left_running"
               /\ DestroyMembers
               /\ bridge' = "none"
               /\ pc_ctor' = "failed"
               /\ main_ret' = "null"
               /\ UNCHANGED host_process

(***************************************************************************)
(* VSTPluginMain and the HostBridge constructor.                           *)
(***************************************************************************)
\* the host loads the plugin: VSTPluginMain runs `new PluginBridge(...)`
MainEnter ==
    /\ pc_ctor = "entry"
    /\ HostUp
    /\ pc_ctor' = CtorNextPc("entry")
    /\ bridge' = "alive"
    /\ UNCHANGED <<main_ret, host_process, socket_acceptor, n_connected, host_sock,
                   peer_sock, peer_order, h2p, p2h, plugin, removeme, vst_host,
                   peer_pc, peer_ctx, n_callbacks, call_pc, call_op,
                   call_sent, n_calls, last_call, sent_log, cb_serviced,
                   cb_blocked, cb_early, misrouted, freed_reads, deletes>>
    /\ UNCHANGED <<descriptor_reads, in_callback, socket_endpoint,
                   runner_endpoint>>
    /\ UNCHANGED nonBridgeVars

\* socket_endpoint(generate_endpoint_name()), socket_acceptor(...): the
\* discovery of the plugin can throw, otherwise the acceptor listens
CtorEndpoint ==
    /\ pc_ctor = "init_endpoint"
    /\ HostUp
    /\ \E found \in BOOLEAN :
         \/ /\ found
            /\ socket_endpoint' \in EndpointNames
            /\ socket_acceptor' = "listening"
            /\ pc_ctor' = CtorNextPc("init_endpoint")
            /\ UNCHANGED <<bridge, main_ret, host_process, host_sock, vst_host,
                           peer_pc>>
         \/ /\ ~found
            /\ CtorThrow
            /\ UNCHANGED socket_endpoint
    /\ UNCHANGED <<n_connected, peer_sock, peer_order, h2p, p2h, plugin,
                   removeme, peer_ctx, n_callbacks, call_pc, call_op, call_sent,
                   n_calls, last_call, sent_log, cb_serviced, cb_blocked,
                   cb_early, misrouted, freed_reads, deletes>>
    /\ UNCHANGED <<descriptor_reads, in_callback, runner_endpoint>>
    /\ UNCHANGED nonBridgeVars

\* vst_host(find_wine_vst_host(), find_vst_plugin(), socket_endpoint.path(),
\* ...): the discovery of the runner can throw, otherwise the runner process
\* is spawned with the path of socket_endpoint as its argument
CtorSpawn ==
    /\ pc_ctor = "init_spawn"
    /\ HostUp
    /\ \E found \in BOOLEAN :
         \/ /\ found
            /\ vst_host' = "running"
            /\ runner_endpoint' = socket_endpoint
            /\ pc_ctor' = CtorNextPc("init_spawn")
            /\ UNCHANGED <<bridge, main_ret, host_process, socket_acceptor,
                           host_sock, peer_pc>>
         \/ /\ ~found
            /\ CtorThrow
            /\ UNCHANGED runner_endpoint
    /\ UNCHANGED <<n_connected, peer_sock, peer_order, h2p, p2h, plugin,
                   removeme, peer_ctx, n_callbacks, call_pc, call_op, call_sent,
                   n_calls, last_call, sent_log, cb_serviced, cb_blocked,
                   cb_early, misrouted, freed_reads, deletes>>
    /\ UNCHANGED <<descriptor_reads, in_callback, socket_endpoint>>
    /\ UNCHANGED nonBridgeVars

\* socket_acceptor.accept(...): blocks until a connection is pending, and
\* takes the oldest one; the three accepts run in AcceptOrder
CtorAccept ==
    /\ pc_ctor = "accept"
    /\ HostUp
    /\ NAccepted < n_connected
    /\ host_sock' = [host_sock EXCEPT ![AcceptOrder[NAccepted + 1]] =
                                         NAccepted + 1]
    /\ pc_ctor' = IF NAccepted + 1 = 3 THEN CtorNextPc("accept") ELSE "accept"
    /\ UNCHANGED <<bridge, main_ret, host_process, socket_acceptor, n_connected,
                   peer_sock, peer_order, h2p, p2h, plugin, removeme, vst_host,
                   peer_pc, peer_ctx, n_callbacks, call_pc, call_op,
                   call_sent, n_calls, last_call, sent_log, cb_serviced,
                   cb_blocked, cb_early, misrouted, freed_reads, deletes>>
    /\ UNCHANGED <<descriptor_reads, in_callback, socket_endpoint,
                   runner_endpoint>>
    /\ UNCHANGED nonBridgeVars

\* plugin.ptr3 = this; plugin.dispatcher = dispatch_proxy; ...
CtorInstall ==
    /\ pc_ctor = "install"
    /\ HostUp
    /\ plugin' = InstallProxies(plugin)
    /\ pc_ctor' = CtorNextPc("install")
    /\ UNCHANGED <<bridge, main_ret, host_process, socket_acceptor, n_connected,
                   host_sock, peer_sock, peer_order, h2p, p2h, removeme, vst_host,
                   peer_pc, peer_ctx, n_callbacks, call_pc, call_op,
                   call_sent, n_calls, last_call, sent_log, cb_serviced,
                   cb_blocked, cb_early, misrouted, freed_reads, deletes>>
    /\ UNCHANGED <<descriptor_reads, in_callback, socket_endpoint,
                   runner_endpoint>>
    /\ UNCHANGED nonBridgeVars

\* removeme = std::thread([&]() { return host_callback_loop(); });
CtorStartThread ==
    /\ pc_ctor = "start_thread"
    /\ HostUp
    /\ removeme' = "running"
    /\ pc_ctor' = CtorNextPc("start_thread")
    /\ UNCHANGED <<bridge, main_ret, host_process, socket_acceptor, n_connected,
                   host_sock, peer_sock, peer_order, h2p, p2h, plugin, vst_host,
                   peer_pc, peer_ctx, n_callbacks, call_pc, call_op,
                   call_sent, n_calls, last_call, sent_log, cb_serviced,
                   cb_blocked, cb_early, misrouted, freed_reads, deletes>>
    /\ UNCHANGED <<descriptor_reads, in_callback, socket_endpoint,
                   runner_endpoint>>
    /\ UNCHANGED nonBridgeVars

\* plugin = read_object(vst_host_aeffect, plugin): blocks until the frame is
\* there; fails when the runner is gone and nothing is left to read
CtorReadAEffect ==
    /\ pc_ctor = "read_aeffect"
    /\ HostUp
    /\ LET conn == host_sock[AeffectChannel] IN
         \/ /\ p2h[conn] # <<>>
            /\ plugin' = ReadObject(plugin, Head(p2h[conn]))
            /\ p2h' = [p2h EXCEPT ![conn] = Tail(@)]
            /\ misrouted' = (misrouted \/ Head(p2h[conn]).kind # "aeffect")
            /\ descriptor_reads' = descriptor_reads + 1
            /\ pc_ctor' = CtorNextPc("read_aeffect")
            /\ UNCHANGED <<bridge, main_ret, host_process, socket_acceptor,
                           host_sock, vst_host, peer_pc>>
         \/ /\ p2h[conn] = <<>>
            /\ vst_host = "exited"
            /\ CtorThrow
            /\ UNCHANGED <<plugin, p2h, misrouted, descriptor_reads>>
    /\ UNCHANGED <<n_connected, peer_sock, peer_order, h2p, removeme, peer_ctx,
                   n_callbacks, call_pc, call_op, call_sent, n_calls,
                   last_call, sent_log, cb_serviced, cb_blocked, cb_early,
                   freed_reads, deletes, in_callback, socket_endpoint,
                   runner_endpoint>>
    /\ UNCHANGED nonBridgeVars

\* return &bridge->plugin;
MainReturn ==
    /\ pc_ctor = "return"
    /\ HostUp
    /\ pc_ctor' = "done"
    /\ main_ret' = "descriptor"
    /\ UNCHANGED <<bridge, host_process, socket_acceptor, n_connected, host_sock,
                   peer_sock, peer_order, h2p, p2h, plugin, removeme, vst_host,
                   peer_pc, peer_ctx, n_callbacks, call_pc, call_op,
                   call_sent, n_calls, last_call, sent_log, cb_serviced,
                   cb_blocked, cb_early, misrouted, freed_reads, deletes>>
    /\ UNCHANGED <<descriptor_reads, in_callback, socket_endpoint,
                   runner_endpoint>>
    /\ UNCHANGED nonBridgeVars

Ctor ==
    \/ MainEnter
    \/ CtorEndpoint
    \/ CtorSpawn
    \/ CtorAccept
    \/ CtorInstall
    \/ CtorStartThread
    \/ CtorReadAEffect
    \/ MainReturn

(***************************************************************************)
(* HostBridge::host_callback_loop, on the thread the constructor starts.   *)
(***************************************************************************)
\* passthrough_event(vst_host_callback, &plugin, host_callback_function),
\* first half: blocks for a frame and calls the host's callback with &plugin
ThreadPassthroughRead ==
    /\ removeme = "running"
    /\ bridge = "alive"
    /\ HostUp
    /\ in_callback = <<>>
    /\ LET conn == host_sock[CallbackLoopChannel] IN
         /\ conn # 0
         /\ p2h[conn] # <<>>
         /\ p2h' = [p2h EXCEPT ![conn] = Tail(@)]
         /\ misrouted' = (misrouted \/ Head(p2h[conn]).kind # "callback_req")
         /\ cb_early' = (cb_early \/ ~plugin.filled)
         /\ in_callback' = <<Head(p2h[conn])>>
    /\ UNCHANGED <<pc_ctor, bridge, main_ret, host_process, socket_acceptor,
                   n_connected, host_sock, peer_sock, peer_order, h2p, plugin,
                   removeme, vst_host, peer_pc, peer_ctx, n_callbacks, call_pc,
                   call_op, call_sent, n_calls, last_call, sent_log,
                   cb_serviced, cb_blocked, freed_reads, deletes,
                   descriptor_reads, socket_endpoint, runner_endpoint>>
    /\ UNCHANGED nonBridgeVars

\* passthrough_event, second half: the host's callback has returned and the
\* response is written.  Writing to a runner that is gone fails, and the loop
\* has no handler: the exception leaves the thread's function
ThreadPassthroughWrite ==
    /\ removeme = "running"
    /\ bridge = "alive"
    /\ HostUp
    /\ in_callback # <<>>
    /\ in_callback' = <<>>
    /\ \/ /\ vst_host = "running"
          /\ h2p' = [h2p EXCEPT ![host_sock[CallbackLoopChannel]] =
                       Append(@, Frame("callback_resp", in_callback[1].val))]
          /\ cb_serviced' = cb_serviced + 1
          /\ cb_blocked' = (cb_blocked \/ call_pc = "waiting")
          /\ UNCHANGED host_process
       \/ /\ vst_host # "running"
          /\ host_process' = "terminated"
          /\ UNCHANGED <<h2p, cb_serviced, cb_blocked>>
    /\ UNCHANGED <<pc_ctor, bridge, main_ret, socket_acceptor, n_connected,
                   host_sock, peer_sock, peer_order, p2h, plugin, removeme,
                   vst_host, peer_pc, peer_ctx, n_callbacks, call_pc, call_op,
                   call_sent, n_calls, last_call, sent_log, cb_early,
                   misrouted, freed_reads, deletes, descriptor_reads,
                   socket_endpoint, runner_endpoint>>
    /\ UNCHANGED nonBridgeVars

\* the read of passthrough_event fails because the runner is gone: `while
\* (true)` has no exit and no handler, so the exception leaves the function
\* of a std::thread, which ends the process
ThreadChannelFailure ==
    /\ removeme = "running"
    /\ bridge = "alive"
    /\ HostUp
    /\ in_callback = <<>>
    /\ host_sock[CallbackLoopChannel] # 0
    /\ p2h[host_sock[CallbackLoopChannel]] = <<>>
    /\ vst_host = "exited"
    /\ host_process' = "terminated"
    /\ UNCHANGED <<pc_ctor, bridge, main_ret, socket_acceptor, n_connected,
                   host_sock, peer_sock, peer_order, h2p, p2h, plugin, removeme,
                   vst_host, peer_pc, peer_ctx, n_callbacks, call_pc, call_op,
                   call_sent, n_calls, last_call, sent_log, cb_serviced,
                   cb_blocked, cb_early, misrouted, freed_reads, deletes>>
    /\ UNCHANGED <<descriptor_reads, in_callback, socket_endpoint,
                   runner_endpoint>>
    /\ UNCHANGED nonBridgeVars

\* the loop still runs after the bridge it captured was released: its next
\* access to the socket reads released memory, which can end the process (or
\* leave the thread blocked: no step)
ThreadUseAfterFree ==
    /\ removeme = "running"
    /\ bridge # "alive"
    /\ HostUp
    /\ host_process' = "terminated"
    /\ UNCHANGED <<pc_ctor, bridge, main_ret, socket_acceptor, n_connected,
                   host_sock, peer_sock, peer_order, h2p, p2h, plugin, removeme,
                   vst_host, peer_pc, peer_ctx, n_callbacks, call_pc, call_op,
                   call_sent, n_calls, last_call, sent_log, cb_serviced,
                   cb_blocked, cb_early, misrouted, freed_reads, deletes>>
    /\ UNCHANGED <<descriptor_reads, in_callback, socket_endpoint,
                   runner_endpoint>>
    /\ UNCHANGED nonBridgeVars

CallbackThread ==
    \/ ThreadPassthroughRead
    \/ ThreadPassthroughWrite
    \/ ThreadChannelFailure

(***************************************************************************)
(* The runner process (the Wine side of the bridge).                       *)
(***************************************************************************)
\* the runner connects its next channel to the endpoint it was started with
RunnerConnect ==
    /\ vst_host = "running"
    /\ peer_pc = "connecting"
    /\ socket_acceptor = "listening"
    /\ runner_endpoint = socket_endpoint
    /\ n_connected < 3
    /\ peer_sock' = [peer_sock EXCEPT ![peer_order[n_connected + 1]] =
                                         n_connected + 1]
    /\ n_connected' = n_connected + 1
    /\ peer_pc' = IF n_connected + 1 = 3 THEN "init" ELSE "connecting"
    /\ UNCHANGED <<pc_ctor, bridge, main_ret, host_process, socket_acceptor,
                   host_sock, peer_order, h2p, p2h, plugin, removeme, vst_host,
                   peer_ctx, n_callbacks, call_pc, call_op, call_sent,
                   n_calls, last_call, sent_log, cb_serviced, cb_blocked,
                   cb_early, misrouted, freed_reads, deletes>>
    /\ UNCHANGED <<descriptor_reads, in_callback, socket_endpoint,
                   runner_endpoint>>
    /\ UNCHANGED nonBridgeVars

\* the plugin calls back into the host, while it initializes or while it
\* handles a dispatch request, and blocks for the response
RunnerCallback ==
    /\ vst_host = "running"
    /\ peer_pc \in {"init", "handling"}
    /\ n_callbacks < MaxCallbacks
    /\ p2h' = [p2h EXCEPT ![peer_sock["callback"]] =
                 Append(@, Frame("callback_req", n_callbacks))]
    /\ n_callbacks' = n_callbacks + 1
    /\ peer_ctx' = peer_pc
    /\ peer_pc' = "cb_wait"
    /\ UNCHANGED <<pc_ctor, bridge, main_ret, host_process, socket_acceptor,
                   n_connected, host_sock, peer_sock, peer_order, h2p, plugin,
                   removeme, vst_host, call_pc, call_op, call_sent, n_calls,
                   last_call, sent_log, cb_serviced, cb_blocked, cb_early,
                   misrouted, freed_reads, deletes>>
    /\ UNCHANGED <<descriptor_reads, in_callback, socket_endpoint,
                   runner_endpoint>>
    /\ UNCHANGED nonBridgeVars

\* the response to the callback arrives
RunnerCallbackReturn ==
    /\ vst_host = "running"
    /\ peer_pc = "cb_wait"
    /\ h2p[peer_sock["callback"]] # <<>>
    /\ h2p' = [h2p EXCEPT ![peer_sock["callback"]] = Tail(@)]
    /\ misrouted' = (misrouted \/
                     Head(h2p[peer_sock["callback"]]).kind # "callback_resp")
    /\ peer_pc' = peer_ctx
    /\ UNCHANGED <<pc_ctor, bridge, main_ret, host_process, socket_acceptor,
                   n_connected, host_sock, peer_sock, peer_order, p2h, plugin,
                   removeme, vst_host, peer_ctx, n_callbacks, call_pc, call_op,
                   call_sent, n_calls, last_call, sent_log, cb_serviced,
                   cb_blocked, cb_early, freed_reads, deletes>>
    /\ UNCHANGED <<descriptor_reads, in_callback, socket_endpoint,
                   runner_endpoint>>
    /\ UNCHANGED nonBridgeVars

\* the plugin is initialized: the runner sends its AEffect
RunnerSendAEffect ==
    /\ vst_host = "running"
    /\ peer_pc = "init"
    /\ p2h' = [p2h EXCEPT ![peer_sock["aeffect"]] =
                 Append(@, Frame("aeffect", 0))]
    /\ peer_pc' = "serving"
    /\ UNCHANGED <<pc_ctor, bridge, main_ret, host_process, socket_acceptor,
                   n_connected, host_sock, peer_sock, peer_order, h2p, plugin,
                   removeme, vst_host, peer_ctx, n_callbacks, call_pc, call_op,
                   call_sent, n_calls, last_call, sent_log, cb_serviced,
                   cb_blocked, cb_early, misrouted, freed_reads, deletes>>
    /\ UNCHANGED <<descriptor_reads, in_callback, socket_endpoint,
                   runner_endpoint>>
    /\ UNCHANGED nonBridgeVars

\* the runner reads the next dispatch request
RunnerReceiveDispatch ==
    /\ vst_host = "running"
    /\ peer_pc = "serving"
    /\ h2p[peer_sock["dispatch"]] # <<>>
    /\ h2p' = [h2p EXCEPT ![peer_sock["dispatch"]] = Tail(@)]
    /\ misrouted' = (misrouted \/
                     Head(h2p[peer_sock["dispatch"]]).kind # "dispatch_req")
    /\ peer_pc' = "handling"
    /\ UNCHANGED <<pc_ctor, bridge, main_ret, host_process, socket_acceptor,
                   n_connected, host_sock, peer_sock, peer_order, p2h, plugin,
                   removeme, vst_host, peer_ctx, n_callbacks, call_pc, call_op,
                   call_sent, n_calls, last_call, sent_log, cb_serviced,
                   cb_blocked, cb_early, freed_reads, deletes>>
    /\ UNCHANGED <<descriptor_reads, in_callback, socket_endpoint,
                   runner_endpoint>>
    /\ UNCHANGED nonBridgeVars

\* the plugin's dispatcher has returned: the runner writes the response
RunnerRespond ==
    /\ vst_host = "running"
    /\ peer_pc = "handling"
    /\ \E r \in RetVals :
         p2h' = [p2h EXCEPT ![peer_sock["dispatch"]] =
                   Append(@, Frame("dispatch_resp", r))]
    /\ peer_pc' = "serving"
    /\ UNCHANGED <<pc_ctor, bridge, main_ret, host_process, socket_acceptor,
                   n_connected, host_sock, peer_sock, peer_order, h2p, plugin,
                   removeme, vst_host, peer_ctx, n_callbacks, call_pc, call_op,
                   call_sent, n_calls, last_call, sent_log, cb_serviced,
                   cb_blocked, cb_early, misrouted, freed_reads, deletes>>
    /\ UNCHANGED <<descriptor_reads, in_callback, socket_endpoint,
                   runner_endpoint>>
    /\ UNCHANGED nonBridgeVars

\* the runner process exits (a crash, a plugin that fails to load)
RunnerExit ==
    /\ vst_host = "running"
    /\ vst_host' = "exited"
    /\ peer_pc' = "gone"
    /\ UNCHANGED <<pc_ctor, bridge, main_ret, host_process, socket_acceptor,
                   n_connected, host_sock, peer_sock, peer_order, h2p, p2h,
                   plugin, removeme, peer_ctx, n_callbacks, call_pc, call_op,
                   call_sent, n_calls, last_call, sent_log, cb_serviced,
                   cb_blocked, cb_early, misrouted, freed_reads, deletes>>
    /\ UNCHANGED <<descriptor_reads, in_callback, socket_endpoint,
                   runner_endpoint>>
    /\ UNCHANGED nonBridgeVars

RunnerProgress ==
    \/ RunnerConnect
    \/ RunnerCallback
    \/ RunnerCallbackReturn
    \/ RunnerSendAEffect
    \/ RunnerReceiveDispatch
    \/ RunnerRespond

(***************************************************************************)
(* The forwarded calls the host makes through the descriptor.              *)
(***************************************************************************)
\* the opcodes the switch of HostBridge::dispatch handles itself
InterceptsNothing(opcode) == FALSE

InterceptedLocally(opcode) == opcode = effClose

\* send_event's return value: the integer of the response frame
SendEventResult(frame) == frame.val

\* `return send_event(...)`: dispatch returns what send_event yields
DispatchReturnValue(yielded) == yielded

\* the entry points that are stubs: process, process_replacing,
\* set_parameter, get_parameter
StubCalls == {"process", "process_replacing", "set_parameter", "get_parameter"}

\* dispatch_proxy -> HostBridge::dispatch on an Active session, up to the
\* point where send_event blocks for the response.  effClose runs `delete
\* this; return 0;`, every other opcode goes to send_event
HostDispatch(opcode) ==
    /\ Active
    /\ get_bridge_instance(plugin) = "this"
    /\ call_pc = "idle"
    /\ n_calls < MaxCalls
    /\ n_calls' = n_calls + 1
    /\ call_op' = opcode
    /\ \/ /\ InterceptedLocally(opcode)
          /\ deletes' = deletes + 1
          /\ call_sent' = 0
          /\ \E o \in IF removeme = "running" THEN DeleteOutcomes
                      ELSE {"thread_left_running"} :
               \/ /\ o = "terminate"
                  /\ host_process' = "terminated"
                  /\ call_pc' = "in_delete"
                  /\ UNCHANGED <<socket_acceptor, host_sock, vst_host, peer_pc, bridge,
                                 last_call>>
               \/ /\ o = "thread_left_running"
                  /\ DestroyMembers
                  /\ bridge' = "freed"
                  /\ call_pc' = "idle"
                  /\ last_call' = [op |-> opcode, sent |-> 0, yielded |-> -1,
                                   ret |-> 0, outcome |-> "returned"]
                  /\ UNCHANGED host_process
          /\ UNCHANGED <<h2p, sent_log>>
       \/ /\ ~InterceptedLocally(opcode)
          /\ h2p' = [h2p EXCEPT ![host_sock[DispatchChannel]] =
                       Append(@, Frame("dispatch_req", opcode))]
          /\ sent_log' = Append(sent_log, opcode)
          /\ call_sent' = 1
          /\ call_pc' = "waiting"
          /\ UNCHANGED <<deletes, host_process, socket_acceptor, host_sock, vst_host,
                         peer_pc, bridge, last_call>>
    /\ UNCHANGED <<pc_ctor, main_ret, n_connected, peer_sock, peer_order, p2h,
                   plugin, removeme, peer_ctx, n_callbacks, cb_serviced,
                   cb_blocked, cb_early, misrouted, freed_reads>>
    /\ UNCHANGED <<descriptor_reads, in_callback, socket_endpoint,
                   runner_endpoint>>
    /\ UNCHANGED nonBridgeVars

\* the response frame arrives: send_event returns its integer and dispatch
\* returns what send_event returned
HostDispatchReturn ==
    /\ call_pc = "waiting"
    /\ HostUp
    /\ LET conn == host_sock[DispatchChannel] IN
         /\ p2h[conn] # <<>>
         /\ p2h' = [p2h EXCEPT ![conn] = Tail(@)]
         /\ misrouted' = (misrouted \/ Head(p2h[conn]).kind # "dispatch_resp")
         /\ last_call' = [op |-> call_op, sent |-> call_sent,
                          yielded |-> SendEventResult(Head(p2h[conn])),
                          ret |-> DispatchReturnValue(
                                      SendEventResult(Head(p2h[conn]))),
                          outcome |-> "returned"]
    /\ call_pc' = "idle"
    /\ UNCHANGED <<pc_ctor, bridge, main_ret, host_process, socket_acceptor,
                   n_connected, host_sock, peer_sock, peer_order, h2p, plugin,
                   removeme, vst_host, peer_pc, peer_ctx, n_callbacks, call_op,
                   call_sent, n_calls, sent_log, cb_serviced, cb_blocked,
                   cb_early, freed_reads, deletes>>
    /\ UNCHANGED <<descriptor_reads, in_callback, socket_endpoint,
                   runner_endpoint>>
    /\ UNCHANGED nonBridgeVars

\* the runner is gone and no response is left to read: send_event's read
\* fails and the exception leaves dispatch
HostDispatchFail ==
    /\ call_pc = "waiting"
    /\ HostUp
    /\ p2h[host_sock[DispatchChannel]] = <<>>
    /\ vst_host = "exited"
    /\ last_call' = [op |-> call_op, sent |-> call_sent, yielded |-> -1,
                     ret |-> -1, outcome |-> "threw"]
    /\ call_pc' = "idle"
    /\ UNCHANGED <<pc_ctor, bridge, main_ret, host_process, socket_acceptor,
                   n_connected, host_sock, peer_sock, peer_order, h2p, p2h,
                   plugin, removeme, vst_host, peer_pc, peer_ctx, n_callbacks,
                   call_op, call_sent, n_calls, sent_log, cb_serviced,
                   cb_blocked, cb_early, misrouted, freed_reads, deletes>>
    /\ UNCHANGED <<descriptor_reads, in_callback, socket_endpoint,
                   runner_endpoint>>
    /\ UNCHANGED nonBridgeVars

\* process, process_replacing, set_parameter, get_parameter on an Active
\* session: unimplemented, nothing is sent
HostStubCall(kind) ==
    /\ Active
    /\ get_bridge_instance(plugin) = "this"
    /\ call_pc = "idle"
    /\ n_calls < MaxCalls
    /\ n_calls' = n_calls + 1
    /\ last_call' = [NoCall EXCEPT !.outcome = kind]
    /\ UNCHANGED <<pc_ctor, bridge, main_ret, host_process, socket_acceptor,
                   n_connected, host_sock, peer_sock, peer_order, h2p, p2h,
                   plugin, removeme, vst_host, peer_pc, peer_ctx, n_callbacks,
                   call_pc, call_op, call_sent, sent_log, cb_serviced,
                   cb_blocked, cb_early, misrouted, freed_reads, deletes>>
    /\ UNCHANGED <<descriptor_reads, in_callback, socket_endpoint,
                   runner_endpoint>>
    /\ UNCHANGED nonBridgeVars

\* a call through the descriptor after effClose returned.  Every proxy starts
\* with get_bridge_instance(*plugin), which reads plugin.ptr3: the AEffect is
\* a member of the released bridge, so this reads released memory.  Such a
\* read can end the process; when it yields the stale pointer the method runs
\* on the released bridge: a stub returns, dispatch hands the released socket
\* to send_event, effClose runs `delete this` a second time
PostCloseCall(kind) ==
    /\ bridge = "freed"
    /\ main_ret = "descriptor"
    /\ HostUp
    /\ call_pc = "idle"
    /\ n_calls < MaxCalls
    /\ n_calls' = n_calls + 1
    /\ \E crash \in BOOLEAN :
         \/ /\ crash
            /\ freed_reads' = freed_reads + 1
            /\ host_process' = "terminated"
            /\ UNCHANGED <<deletes, last_call>>
         \/ /\ ~crash
            /\ freed_reads' = freed_reads + (IF kind = "dispatch" THEN 2 ELSE 1)
            /\ deletes' = deletes + (IF kind = "close" THEN 1 ELSE 0)
            /\ last_call' = [NoCall EXCEPT !.outcome = "ran_on_freed"]
            /\ UNCHANGED host_process
    /\ UNCHANGED <<pc_ctor, bridge, main_ret, socket_acceptor, n_connected,
                   host_sock, peer_sock, peer_order, h2p, p2h, plugin, removeme,
                   vst_host, peer_pc, peer_ctx, n_callbacks, call_pc, call_op,
                   call_sent, sent_log, cb_serviced, cb_blocked, cb_early,
                   misrouted>>
    /\ UNCHANGED <<descriptor_reads, in_callback, socket_endpoint,
                   runner_endpoint>>
    /\ UNCHANGED nonBridgeVars

HostCallCompletes ==
    \/ HostDispatchReturn
    \/ HostDispatchFail

(***************************************************************************)
(* Forwarded dispatch calls from several host threads: HostBridge::dispatch *)
(* takes no lock and hands the one dispatch socket to send_event.          *)
(***************************************************************************)
\* dispatch -> send_event, first half: the request is written to the socket
SendEventWrite(t, opcode) ==
    /\ send_pc[t] \in {"idle", "returned"}
    /\ ~InterceptedLocally(opcode)
    /\ Len(host_vst_dispatch.requests) + Len(host_vst_dispatch.responses)
         < MaxCalls
    /\ host_vst_dispatch' =
         [host_vst_dispatch EXCEPT
            !.requests = Append(@, [op |-> opcode, from |-> t])]
    /\ send_pc' = [send_pc EXCEPT ![t] = "waiting"]
    /\ send_op' = [send_op EXCEPT ![t] = opcode]
    /\ send_got' = [send_got EXCEPT ![t] = 0]
    /\ UNCHANGED <<bridgeVars, codecVars, converterVars, archVars, spawnVars,
                   endpointVars, timerVars>>

\* the runner reads the oldest request, runs the plugin's dispatcher and
\* writes the response; the frame does not say which request it answers
RunnerServesDispatch ==
    /\ host_vst_dispatch.requests # <<>>
    /\ host_vst_dispatch' =
         [requests |-> Tail(host_vst_dispatch.requests),
          responses |-> Append(host_vst_dispatch.responses,
                               Head(host_vst_dispatch.requests))]
    /\ UNCHANGED <<send_pc, send_op, send_got>>
    /\ UNCHANGED <<bridgeVars, codecVars, converterVars, archVars, spawnVars,
                   endpointVars, timerVars>>

\* send_event, second half: the thread takes the next response off the
\* socket and dispatch returns
SendEventRead(t) ==
    /\ send_pc[t] = "waiting"
    /\ host_vst_dispatch.responses # <<>>
    /\ send_got' = [send_got EXCEPT
                      ![t] = Head(host_vst_dispatch.responses).from]
    /\ host_vst_dispatch' =
         [host_vst_dispatch EXCEPT !.responses = Tail(@)]
    /\ send_pc' = [send_pc EXCEPT ![t] = "returned"]
    /\ UNCHANGED send_op
    /\ UNCHANGED <<bridgeVars, codecVars, converterVars, archVars, spawnVars,
                   endpointVars, timerVars>>

(***************************************************************************)
(* MainContext::async_handle_events: the timer that pumps the events.      *)
(***************************************************************************)
\* std::max(events_timer.expiry() + event_loop_interval,
\*          std::chrono::steady_clock::now() + std::chrono::milliseconds(5))
NextDeadlineFromNow(expiry, now) == now + event_loop_interval

NextDeadline(expiry, now) ==
    IF expiry + event_loop_interval >= now + minimum_delay
    THEN expiry + event_loop_interval
    ELSE now + minimum_delay

\* the body of async_handle_events: expires_at(...) sets the expiry, which
\* cancels the waits that are pending, and async_wait(...) starts a wait
async_handle_events(timer, now) ==
    [expiry |-> NextDeadline(timer.expiry, now),
     waits |-> [i \in DOMAIN timer.waits |-> "aborted"] \o <<"pending">>]

\* if (error.failed())
ErrorFailedNever(error) == FALSE

ErrorFailed(error) == error # "success"

\* time passes
ClockTick ==
    /\ clock < MaxTime
    /\ clock' = clock + 1
    /\ UNCHANGED <<events_timer, context_stopped, pump>>
    /\ UNCHANGED <<bridgeVars, codecVars, converterVars, archVars, spawnVars,
                   endpointVars, dispatchVars>>

\* the application calls async_handle_events(handler)
StartPump ==
    /\ pump.pc = "not_started"
    /\ events_timer' = async_handle_events(events_timer, clock)
    /\ pump' = [pump EXCEPT !.pc = "waiting", !.scheduled = @ + 1,
                            !.from = events_timer.expiry, !.at = clock]
    /\ UNCHANGED <<clock, context_stopped>>
    /\ UNCHANGED <<bridgeVars, codecVars, converterVars, archVars, spawnVars,
                   endpointVars, dispatchVars>>

\* a wait completes and the context, which runs on one thread, calls the
\* lambda of async_wait: with an error when the wait was cancelled, without
\* one when the expiry has passed.  The lambda returns on an error and calls
\* handler() otherwise
WaitCompletes ==
    /\ ~context_stopped
    /\ pump.pc # "in_handler"
    /\ \E i \in DOMAIN events_timer.waits :
         LET error == IF events_timer.waits[i] = "aborted"
                      THEN "operation_aborted" ELSE "success"
         IN  /\ error = "success" => clock >= events_timer.expiry
             /\ events_timer' =
                  [events_timer EXCEPT
                     !.waits = SubSeq(@, 1, i - 1) \o SubSeq(@, i + 1, Len(@))]
             /\ IF ErrorFailed(error)
                THEN pump' = [pump EXCEPT !.pc = "ended",
                                         !.errored = @ \/ error # "success"]
                ELSE pump' = [pump EXCEPT !.pc = "in_handler",
                                         !.expired = @ + 1,
                                         !.errored = @ \/ error # "success"]
    /\ UNCHANGED <<clock, context_stopped>>
    /\ UNCHANGED <<bridgeVars, codecVars, converterVars, archVars, spawnVars,
                   endpointVars, dispatchVars>>

\* handler() returns and the lambda calls async_handle_events(handler)
HandlerReturns ==
    /\ pump.pc = "in_handler"
    /\ events_timer' = async_handle_events(events_timer, clock)
    /\ pump' = [pump EXCEPT !.pc = "waiting", !.handler_runs = @ + 1,
                            !.scheduled = @ + 1,
                            !.from = events_timer.expiry, !.at = clock]
    /\ UNCHANGED <<clock, context_stopped>>
    /\ UNCHANGED <<bridgeVars, codecVars, converterVars, archVars, spawnVars,
                   endpointVars, dispatchVars>>

\* the pending wait is cancelled: it will complete with an error
CancelWait ==
    /\ pump.pc = "waiting"
    /\ \E i \in DOMAIN events_timer.waits : events_timer.waits[i] = "pending"
    /\ events_timer' =
         [events_timer EXCEPT
            !.waits = [i \in DOMAIN @ |-> "aborted"]]
    /\ UNCHANGED <<clock, context_stopped, pump>>
    /\ UNCHANGED <<bridgeVars, codecVars, converterVars, archVars, spawnVars,
                   endpointVars, dispatchVars>>

\* MainContext::stop(): all future work of the context is dropped
StopContext ==
    /\ ~context_stopped
    /\ context_stopped' = TRUE
    /\ UNCHANGED <<clock, events_timer, pump>>
    /\ UNCHANGED <<bridgeVars, codecVars, converterVars, archVars, spawnVars,
                   endpointVars, dispatchVars>>

(***************************************************************************)
(* The specifications.                                                     *)
(***************************************************************************)
Next ==
    \/ MainEnter
    \/ CtorEndpoint
    \/ CtorSpawn
    \/ CtorAccept
    \/ CtorInstall
    \/ CtorStartThread
    \/ CtorReadAEffect
    \/ MainReturn
    \/ ThreadPassthroughRead
    \/ ThreadPassthroughWrite
    \/ ThreadChannelFailure
    \/ ThreadUseAfterFree
    \/ RunnerConnect
    \/ RunnerCallback
    \/ RunnerCallbackReturn
    \/ RunnerSendAEffect
    \/ RunnerReceiveDispatch
    \/ RunnerRespond
    \/ RunnerExit
    \/ \E opcode \in Opcodes : HostDispatch(opcode)
    \/ HostDispatchReturn
    \/ HostDispatchFail
    \/ \E kind \in StubCalls : HostStubCall(kind)
    \/ \E kind \in StubCalls \cup {"dispatch", "close"} : PostCloseCall(kind)

\* the runner connects in the documented order
Spec == Init /\ [][Next]_vars

\* the runner connects in any order
PermSpec == PermInit /\ [][Next]_vars

\* Threads that can run do run: the constructing thread, the callback thread,
\* the runner, and a forwarded call whose response (or failure) is there.
\* The host is free to make no further call and the runner is free not to
\* exit.
Fairness ==
    /\ WF_vars(Ctor)
    /\ WF_vars(CallbackThread)
    /\ WF_vars(RunnerProgress)
    /\ WF_vars(HostCallCompletes)

FairSpec == Spec /\ Fairness

FairPermSpec == PermSpec /\ Fairness

\* one event is encoded to a frame and decoded again
CodecSpec == CodecInit /\ [][CodecEncode \/ CodecDecode]_vars

\* a data pointer is classified, or a response is written back through it
\* and the pointer is classified afterwards
ConverterSpec ==
    ConverterInit /\
    [][\/ ConverterRead
       \/ \E response \in Payloads : ConverterWrite(response)]_vars

\* the runner is looked up and spawned for one plugin in one environment
SpawnSpec == SpawnInit /\ [][HostBridgeSpawn \/ UtilsDiscovery]_vars

EndpointNext ==
    \/ \E i \in instances : GenerateDraw(i)
    \/ \E i \in instances : GenerateCheck(i)
    \/ \E i \in instances : CreateAcceptor(i)
    \/ \E i \in instances : AcceptConnections(i)

\* one instance generates its endpoint name and creates the endpoint
EndpointSpec == EndpointInitFor({1}) /\ [][EndpointNext]_vars

\* two instances of the same plugin do so at the same time
RaceSpec == EndpointInitFor(InstanceIds) /\ [][EndpointNext]_vars

\* the host calls the dispatcher of one session from its threads
DispatchSpec ==
    Init /\
    [][\/ \E t \in HostThreads, opcode \in Opcodes : SendEventWrite(t, opcode)
       \/ RunnerServesDispatch
       \/ \E t \in HostThreads : SendEventRead(t)]_vars

\* the events pump is started once and runs on the main thread
TimerSpec ==
    Init /\
    [][\/ ClockTick
       \/ StartPump
       \/ WaitCompletes
       \/ HandlerReturns
       \/ CancelWait
       \/ StopContext]_vars

\* the architecture of one file is sniffed
ArchSpec == ArchInit /\ [][FindVstArchitecture]_vars

(***************************************************************************)
(* Properties of the session layer.                                        *)
(***************************************************************************)
\* every host socket that is connected is connected to the runner's socket of
\* the same purpose
PairedSamePurpose ==
    \A c \in Chan : host_sock[c] # 0 => peer_order[host_sock[c]] = c

\* the frames of a kind that are in flight from the runner to the host
InFlightToHost(kind) ==
    {<<i, k>> \in (1..3) \X (1..(MaxCalls + MaxCallbacks + 2)) :
        k <= Len(p2h[i]) /\ p2h[i][k].kind = kind}

\* C1: a dispatch call on an Active session with the close opcode writes no
\* request, releases the session locally and returns 0; with any other opcode
\* it writes exactly one request through send_event and returns what
\* send_event yields.  No request with the close opcode ever reaches the
\* dispatch channel.
C1_CloseInterceptedLocally ==
    /\ \A k \in 1..Len(sent_log) : sent_log[k] # effClose
    /\ \A i \in 1..3 : \A k \in 1..Len(h2p[i]) :
         h2p[i][k].kind = "dispatch_req" => h2p[i][k].val # effClose
    /\ call_pc = "waiting" => (call_op # effClose /\ call_sent = 1)
    /\ call_pc = "in_delete" => (call_op = effClose /\ call_sent = 0)
    /\ (last_call.outcome = "returned" /\ last_call.op = effClose) =>
         (last_call.sent = 0 /\ last_call.ret = 0 /\ bridge = "freed")
    /\ (last_call.outcome = "returned" /\ last_call.op # effClose) =>
         (last_call.sent = 1 /\ last_call.ret = last_call.yielded)

\* a forwarded call was sent and answered, and then the close call returned
C1_Witness ==
    /\ last_call.outcome = "returned"
    /\ last_call.op = effClose
    /\ last_call.ret = 0
    /\ Len(sent_log) = 1

\* the runner has issued callback number k before sending its AEffect and is
\* blocked for the response
EarlyCallbackPending(k) ==
    /\ vst_host = "running"
    /\ peer_pc = "cb_wait"
    /\ peer_ctx = "init"
    /\ n_callbacks = k

\* C2: a callback the runner issues before it has sent the descriptor, and
\* blocks on, is serviced by the callback loop, and the constructor then
\* completes its descriptor read; no callback is dropped.  (While the runner
\* stays alive.)
C2_EarlyCallbackServiced ==
    /\ [](vst_host = "running" /\ peer_pc # "cb_wait" =>
            cb_serviced = n_callbacks)
    /\ \A k \in 1..MaxCallbacks :
         /\ EarlyCallbackPending(k) ~>
              ((cb_serviced >= k /\ peer_pc # "cb_wait") \/ vst_host # "running")
         /\ EarlyCallbackPending(k) ~>
              ((plugin.filled /\ main_ret = "descriptor") \/ vst_host # "running")

\* a callback was answered before the AEffect was read, and VSTPluginMain has
\* returned the descriptor
C2_Witness ==
    /\ cb_early
    /\ cb_serviced >= 1
    /\ plugin.filled
    /\ main_ret = "descriptor"
    /\ vst_host = "running"

\* C3: the host accepts dispatch, then callback, then the descriptor channel,
\* each accept waiting for a pending connection; when the runner connects in
\* that order the handshake completes and every host channel is paired with
\* the runner's channel of the same purpose.
C3_HandshakeInOrder ==
    /\ [](NAccepted <= n_connected)
    /\ [](host_sock["aeffect"] # 0 => host_sock["callback"] # 0)
    /\ [](host_sock["callback"] # 0 => host_sock["dispatch"] # 0)
    /\ [](peer_order = DocumentedOrder => PairedSamePurpose)
    /\ (peer_order = DocumentedOrder /\ n_connected = 3) ~> (pc_ctor # "accept")

\* the runner connected in the documented order and all three are accepted
C3_Witness ==
    /\ peer_order = DocumentedOrder
    /\ NAccepted = 3
    /\ pc_ctor = "install"

\* C4: when the runner connects in another order than the documented one, the
\* handshake never completes with a host channel paired with a runner channel
\* of another purpose.
C4_NeverCrossWired ==
    NAccepted = 3 => \A c \in Chan : peer_order[host_sock[c]] = c

\* C5: VSTPluginMain returns the descriptor only once the channels are
\* accepted, the callback loop is started and the descriptor is read; when
\* construction fails it returns null, no bridge and no running callback
\* thread remain, and the host's callback was never handed a descriptor that
\* had not been read.
C5_NeverHalfInitialized ==
    /\ main_ret = "descriptor" =>
         (n_connected = 3 /\ removeme = "running" /\ plugin.filled)
    /\ pc_ctor \in {"failed", "aborted"} =>
         /\ main_ret = "null"
         /\ bridge # "alive"
         /\ removeme # "running"
         /\ ~cb_early

\* C6: when the runner has exited, the constructor is never left blocked: in
\* accept() and in the descriptor read it has a step to take (take a pending
\* connection or frame, or fail with a construction error).
C6_NoBlockingOnDeadRunner ==
    (vst_host = "exited" /\ HostUp /\ pc_ctor \in {"accept", "read_aeffect"})
        => ENABLED Ctor

\* C7: after the close opcode was processed no forwarded call reads or frees
\* the released session: such a call fails explicitly, and the session is
\* released exactly once.
C7_PostCloseCallsFailExplicitly ==
    /\ freed_reads = 0
    /\ deletes <= 1
    /\ last_call.outcome # "ran_on_freed"

\* C8: processing the close opcode terminates and joins the callback thread:
\* the call is never stuck or cut short inside the release, and once it has
\* returned the callback thread is not running any more.
C8_CloseJoinsCallbackThread ==
    /\ call_pc # "in_delete"
    /\ (last_call.outcome = "returned" /\ last_call.op = effClose) =>
         removeme # "running"

\* C9: while a forwarded dispatch call is blocked for its response a callback
\* of the runner is still serviced by the callback thread, the call returns
\* once the runner has answered, and no frame is consumed by a reader of the
\* other channel.  (While the runner stays alive.)
C9_ChannelsIndependent ==
    /\ [](~misrouted)
    /\ (call_pc = "waiting" /\ peer_pc = "cb_wait" /\ vst_host = "running") ~>
          (peer_pc # "cb_wait" \/ vst_host # "running")
    /\ (call_pc = "waiting" /\ InFlightToHost("dispatch_resp") # {}
          /\ vst_host = "running") ~>
          ((call_pc = "idle" /\ last_call.outcome = "returned")
             \/ vst_host # "running")

\* a callback was answered while a dispatch call was blocked, and that call
\* has returned
C9_Witness ==
    /\ cb_blocked
    /\ call_pc = "idle"
    /\ last_call.outcome = "returned"
    /\ last_call.op # effClose
    /\ ~misrouted

\* C20: the constructor reads the descriptor from the descriptor-transfer
\* channel at most once, exactly once in every construction that completes,
\* and the read starts only after all three channels are accepted, the
\* back-pointer and the proxy slots are installed and the callback thread is
\* started.
C20_DescriptorReadOnceAtEnd ==
    /\ descriptor_reads <= 1
    /\ pc_ctor = "read_aeffect" =>
         /\ descriptor_reads = 0
         /\ NAccepted = 3
         /\ plugin.ptr3 = "this"
         /\ plugin.slots = ProxySlots
         /\ removeme = "running"
    /\ descriptor_reads = 1 => (pc_ctor \in {"return", "done"} /\ plugin.filled)
    /\ main_ret = "descriptor" => descriptor_reads = 1

\* the constructor has read the descriptor and VSTPluginMain has returned
C20_Witness ==
    /\ descriptor_reads = 1
    /\ pc_ctor = "done"
    /\ main_ret = "descriptor"
    /\ removeme = "running"

Installed(obj) == obj.ptr3 = "this" /\ obj.slots = ProxySlots

\* C22: the five function-pointer slots and the back-pointer are set to the
\* local proxies and the owning session by the constructor's install step and
\* by no other step; once set they keep those values in every later state,
\* also after the descriptor has been filled in from the peer.
C22_SlotsInstalledOnce ==
    /\ [](pc_ctor \in {"start_thread", "read_aeffect", "return", "done"} =>
            Installed(plugin))
    /\ [](plugin.filled => Installed(plugin))
    /\ [][Installed(plugin) => Installed(plugin')]_vars
    /\ [][(plugin'.slots # plugin.slots \/ plugin'.ptr3 # plugin.ptr3) =>
            (pc_ctor = "install" /\ ~Installed(plugin))]_vars

\* the descriptor was filled in from the peer, handed to the host, and a
\* forwarded call went through its dispatcher slot and came back
C22_Witness ==
    /\ plugin.filled
    /\ Installed(plugin)
    /\ main_ret = "descriptor"
    /\ last_call.outcome = "returned"
    /\ last_call.sent = 1

\* C29: the runner process runs only once the endpoint name is generated and
\* the acceptor is listening on it, and it was started with that same
\* endpoint name, so a runner that still has channels to connect can always
\* connect the next one.
C29_SpawnAfterListening ==
    /\ vst_host = "running" =>
         /\ socket_acceptor = "listening"
         /\ socket_endpoint \in EndpointNames
         /\ runner_endpoint = socket_endpoint
    /\ (vst_host = "running" /\ peer_pc = "connecting") => ENABLED RunnerConnect

\* the runner was started with the endpoint name of the bridge and has
\* connected its first channel right after its start
C29_Witness ==
    /\ vst_host = "running"
    /\ pc_ctor = "accept"
    /\ NAccepted = 0
    /\ n_connected = 1
    /\ runner_endpoint = socket_endpoint

\* the callback channel has failed: the runner is gone and no frame is left
\* for the callback loop to read
CallbackChannelFailed ==
    /\ removeme = "running"
    /\ bridge = "alive"
    /\ HostUp
    /\ in_callback = <<>>
    /\ host_sock[CallbackLoopChannel] # 0
    /\ p2h[host_sock[CallbackLoopChannel]] = <<>>
    /\ vst_host = "exited"

\* C24: the callback loop runs for as long as the callback channel is open;
\* when the channel fails or is closed because the runner is gone, the loop
\* ends and its thread finishes cleanly, with the host process still
\* running; the thread finishes for no other reason.
C24_LoopEndsWhenPeerGone ==
    /\ [](removeme = "finished" => vst_host = "exited")
    /\ CallbackChannelFailed ~> (removeme = "finished" /\ HostUp)

\* C23: the dispatch channel is read by at most one forwarded call at a
\* time, and the response a call consumes answers the request that call
\* sent, also when the host calls the dispatcher from more than one thread.
C23_SingleReaderPerChannel ==
    /\ Cardinality({t \in HostThreads : send_pc[t] = "waiting"}) <= 1
    /\ \A t \in HostThreads : send_pc[t] = "returned" => send_got[t] = t

(***************************************************************************)
(* Properties of the event codec.                                          *)
(***************************************************************************)
\* C10: decoding the frame an event was encoded to returns the same event,
\* for every opcode, index, value and option and for each of the four payload
\* variants, over a frame whose payload tag selects among none, string and
\* buffer; a WantsString payload does not come back as Empty or as a String.
C10_RoundTrip ==
    codec_pc = "decoded" => ev_out = ev_in

(***************************************************************************)
(* Properties of the default data converter.                               *)
(***************************************************************************)
\* C11: DefaultDataConverter::read classifies the data pointer whatever the
\* opcode, index and value are: a null pointer gives the empty payload, a
\* pointer to a zero first byte gives the WantsString sentinel and never an
\* empty string, a pointer to a non-zero first byte gives the String of the
\* bytes before the first zero byte.
C11_ReadClassifiesPointer ==
    conv_pc = "read" =>
        /\ conv_data.null => conv_payload.type = "Empty"
        /\ (~conv_data.null /\ conv_data.mem[1] = 0) =>
              /\ conv_payload.type = "WantsString"
              /\ conv_payload # [type |-> "String", bytes |-> <<>>]
        /\ (~conv_data.null /\ conv_data.mem[1] # 0) =>
              /\ conv_payload.type = "String"
              /\ Len(conv_payload.bytes) >= 1
              /\ \A i \in 1..Len(conv_payload.bytes) :
                    conv_payload.bytes[i] = conv_data.mem[i]
                    /\ conv_payload.bytes[i] # 0
              /\ conv_data.mem[Len(conv_payload.bytes) + 1] = 0

\* a pointer to a zero byte followed by non-zero bytes was classified, with
\* a non-zero opcode
C11_Witness ==
    /\ conv_pc = "read"
    /\ conv_before.null
    /\ ~conv_data.null
    /\ conv_data.mem[1] = 0
    /\ conv_data.mem[2] # 0
    /\ conv_args.opcode # 0
    /\ conv_payload.type = "WantsString"

\* C12: DefaultDataConverter::write with a String response of n bytes
\* overwrites bytes 0..n of the destination (the n bytes, then one zero) and
\* leaves every later byte as it was; with an Empty, Buffer or WantsString
\* response it leaves the destination as it was.
C12_WriteFrame ==
    (conv_pc = "written" /\ ~conv_before.null) =>
        /\ ~conv_data.null
        /\ Len(conv_data.mem) = Len(conv_before.mem)
        /\ conv_response.type = "String" =>
              LET n == Len(conv_response.bytes) IN
                /\ \A i \in 1..n : conv_data.mem[i] = conv_response.bytes[i]
                /\ conv_data.mem[n + 1] = 0
                /\ \A i \in (n + 2)..Len(conv_data.mem) :
                      conv_data.mem[i] = conv_before.mem[i]
        /\ conv_response.type # "String" => conv_data = conv_before

\* a string shorter than the content was written over non-zero bytes: the
\* terminator replaced a non-zero byte and a non-zero byte behind it is left
C12_Witness ==
    /\ conv_pc = "written"
    /\ ~conv_before.null
    /\ conv_response.type = "String"
    /\ Len(conv_response.bytes) = 1
    /\ conv_before.mem[2] # 0
    /\ conv_data.mem[2] = 0
    /\ conv_data.mem[3] # 0

\* a string result without a zero byte was written through a pointer and the
\* memory behind the pointer was classified afterwards
WrittenThenRead ==
    /\ conv_pc = "read"
    /\ ~conv_data.null
    /\ conv_response.type = "String"
    /\ \A i \in 1..Len(conv_response.bytes) : conv_response.bytes[i] # 0

\* C28: after write has stored a String result without a zero byte into a
\* buffer, read on that buffer returns that String when it is not empty and
\* the WantsString sentinel, not an empty String, when it is empty.
C28_WriteThenRead ==
    WrittenThenRead =>
        IF conv_response.bytes # <<>>
        THEN conv_payload = [type |-> "String", bytes |-> conv_response.bytes]
        ELSE conv_payload = [type |-> "WantsString", bytes |-> <<>>]

\* a string of MaxLen bytes was written over memory that held other bytes
\* where the string and its terminator went, and was read back
C28_Witness ==
    /\ WrittenThenRead
    /\ Len(conv_response.bytes) = MaxLen
    /\ conv_before.mem[MaxLen + 1] # 0
    /\ conv_payload.type = "String"

(***************************************************************************)
(* Properties of find_vst_architecture.                                    *)
(***************************************************************************)
\* n bytes at pos of the file can be read
FieldReadable(pos, n) == pe_file.exists /\ pos + n <= Len(pe_file.bytes)

FileField(pos, n) == SubSeq(pe_file.bytes, pos + 1, pos + n)

\* the offset field, and the signature and machine type it points to, are
\* all in the file
ImageReadable ==
    /\ FieldReadable(PeOffsetField, 4)
    /\ FieldReadable(LittleEndian(FileField(PeOffsetField, 4)), 6)

SignatureOfImage == FileField(LittleEndian(FileField(PeOffsetField, 4)), 4)

MachineTypeOfImage ==
    LittleEndian(FileField(LittleEndian(FileField(PeOffsetField, 4)) + 4, 2))

ValidImageSniffed ==
    /\ arch_pc = "done"
    /\ ImageReadable
    /\ SignatureOfImage = ExpectedSignature

\* C13 (as stated): on an image with a valid header magic,
\* find_vst_architecture returns the 32-bit variant for machine type 0x014c,
\* the 64-bit variant for 0x8664, and fails with a classification error for
\* every other machine type.
C13_UnrecognizedRejected ==
    ValidImageSniffed =>
        /\ MachineTypeOfImage = IMAGE_FILE_MACHINE_I386 =>
              arch_result = Architecture("vst_32")
        /\ MachineTypeOfImage = IMAGE_FILE_MACHINE_AMD64 =>
              arch_result = Architecture("vst_64")
        /\ MachineTypeOfImage \notin
                {IMAGE_FILE_MACHINE_I386, IMAGE_FILE_MACHINE_AMD64} =>
              arch_result.kind = "error"

\* C13 (amended): on an image with a valid header magic,
\* find_vst_architecture returns the 32-bit variant for machine type 0x014c,
\* the 64-bit variant for 0x8664 and for 0x0000 (unknown machine), and fails
\* with a classification error for every other machine type.
C13_UnrecognizedRejectedButUnknown ==
    ValidImageSniffed =>
        /\ MachineTypeOfImage = IMAGE_FILE_MACHINE_I386 =>
              arch_result = Architecture("vst_32")
        /\ MachineTypeOfImage \in
                {IMAGE_FILE_MACHINE_AMD64, IMAGE_FILE_MACHINE_UNKNOWN} =>
              arch_result = Architecture("vst_64")
        /\ MachineTypeOfImage \notin
                {IMAGE_FILE_MACHINE_I386, IMAGE_FILE_MACHINE_AMD64,
                 IMAGE_FILE_MACHINE_UNKNOWN} =>
              arch_result = RuntimeError("neither_x86_nor_x86_64")

\* a valid image of another architecture was sniffed and rejected
C13_Witness ==
    /\ ValidImageSniffed
    /\ MachineTypeOfImage \in OtherMachineTypes
    /\ arch_result = RuntimeError("neither_x86_nor_x86_64")

\* C15: find_vst_architecture tells its failures apart: a missing file, or
\* one too short for the offset field, the magic or the machine type, fails
\* with a read error (an error that is neither the corrupt-file nor the
\* unsupported-architecture error); a readable file with another magic fails
\* with the corrupt-file error whatever its machine type; no variant is
\* returned from bytes that could not be read.
C15_FailuresDistinguished ==
    arch_pc = "done" =>
        /\ ~ImageReadable =>
              /\ arch_result.kind = "error"
              /\ arch_result.what \notin
                    {"not_a_valid_dll", "neither_x86_nor_x86_64"}
        /\ (ImageReadable /\ SignatureOfImage # ExpectedSignature) =>
              arch_result = RuntimeError("not_a_valid_dll")
        /\ arch_result.kind \in {"vst_32", "vst_64"} => ImageReadable

(***************************************************************************)
(* Properties of the discovery and the spawn.                              *)
(***************************************************************************)
\* the runner variant that matches an architecture
RunnerFor(arch) ==
    IF arch = "vst_32" THEN yabridge_wine_host_name_32bit
    ELSE yabridge_wine_host_name

\* C14: the runner the session spawns is the variant that matches the
\* architecture of the plugin image (32-bit image: 32-bit runner, 64-bit
\* image: 64-bit runner); it is taken from next to the shim first and from
\* the search path otherwise, and construction fails with a discovery error
\* when neither has it.
C14_RunnerMatchesArchitecture ==
    spawn_pc = "done" =>
        /\ spawned.kind = "child" =>
              /\ spawned.exe.name = RunnerFor(image_arch)
              /\ spawned.exe.where =
                    (IF spawned.exe.name \in host_beside THEN "beside"
                     ELSE "search_path")
              /\ spawned.exe.name \in host_beside \cup host_on_path
        /\ RunnerFor(image_arch) \notin host_beside \cup host_on_path =>
              spawned.kind = "error"

\* the directory nearest to the plugin image that holds `dosdevices`
NearestPrefix ==
    CHOOSE d \in dosdevices : \A e \in dosdevices : e <= d

\* C18: the environment of the spawned runner keeps WINEPREFIX as inherited
\* whenever it is set; only when it is not set is it set to the nearest
\* directory above the plugin image that holds `dosdevices`; every other
\* variable is passed on as it is.
C18_InheritedPrefixKept ==
    (spawn_pc = "done" /\ spawned.kind = "child") =>
        /\ inherited_env.WINEPREFIX.set =>
              spawned.env.WINEPREFIX = inherited_env.WINEPREFIX
        /\ (~inherited_env.WINEPREFIX.set /\ dosdevices # {}) =>
              spawned.env.WINEPREFIX = SetTo(NearestPrefix)
        /\ spawned.env.WINELOADER = inherited_env.WINELOADER

\* C19: when WINEPREFIX is not set and no directory above the plugin image
\* holds `dosdevices`, construction fails with a discovery error and no
\* runner is spawned.
C19_NoPrefixNoRunner ==
    (spawn_pc = "done" /\ ~inherited_env.WINEPREFIX.set /\ dosdevices = {}) =>
        spawned.kind = "error"

(***************************************************************************)
(* Properties of the endpoint name generation.                             *)
(***************************************************************************)
\* the instance has taken the name it generated as its endpoint
HoldsEndpoint(i) == gen_pc[i] \in {"returned", "listening"}

\* C16: two instances that generate endpoint names at the same time for the
\* same plugin never both hold the same endpoint path, however their
\* existence checks and the creation of their sockets interleave.
C16_DistinctEndpoints ==
    \A i \in instances : \A j \in instances \ {i} :
        (HoldsEndpoint(i) /\ HoldsEndpoint(j)) =>
            candidate_endpoint[i] # candidate_endpoint[j]

\* C17: run on its own, the name generation never returns a path that
\* exists: a candidate that exists is discarded and another identifier of 8
\* alphanumeric characters is drawn, and the loop returns as soon as a drawn
\* candidate does not exist.
C17_ReturnsFreshPath ==
    /\ [](\A i \in instances :
            /\ gen_pc[i] = "returned" =>
                  /\ candidate_endpoint[i] \notin fs_paths
                  /\ candidate_endpoint[i] \notin discarded[i]
            /\ gen_pc[i] \in {"check", "returned"} =>
                  /\ Len(candidate_endpoint[i]) = RandomIdLength
                  /\ \A k \in 1..RandomIdLength :
                        candidate_endpoint[i][k] \in 1..MaxAlphabet
            /\ discarded[i] \subseteq fs_paths)
    /\ [][\A i \in instances :
            (gen_pc[i] = "check" /\ gen_pc'[i] # "check") =>
                IF candidate_endpoint[i] \in fs_paths
                THEN gen_pc'[i] = "draw"
                ELSE /\ gen_pc'[i] = "returned"
                     /\ candidate_endpoint'[i] = candidate_endpoint[i]]_vars

\* the loop went past a candidate that exists and returned another one
C17_Witness ==
    /\ instances = {1}
    /\ gen_pc[1] = "returned"
    /\ discarded[1] # {}
    /\ candidate_endpoint[1] \notin fs_paths

\* C25: once an instance has accepted all of its channels, its endpoint path
\* no longer exists in the filesystem, so that the name can be generated again.
C25_EndpointRemovedAfterAccept ==
    \A i \in instances :
        gen_pc[i] = "accepted" => candidate_endpoint[i] \notin fs_paths


\* C26: each call of async_handle_events sets the deadline of the timer to
\* the later of (the previous deadline + event_loop_interval) and (the time of
\* the call + 5 ms), with an interval of 1000 ms / 60: the deadline advances
\* from the previous deadline whenever that lies at least 5 ms ahead, and it
\* is never less than 5 ms after the moment of the call.
C26_DeadlineFromPreviousDeadline ==
    pump.pc = "waiting" =>
        LET previous == pump.from
            now == pump.at
            interval == 1000 \div 60
        IN  /\ events_timer.expiry >= now + 5
            /\ events_timer.expiry >= previous + interval
            /\ events_timer.expiry \in {now + 5, previous + interval}
            /\ previous + interval >= now + 5 =>
                   events_timer.expiry = previous + interval

\* the handler ran and took so long that the pump was rescheduled after the
\* previous deadline, and the new deadline still counts from the previous one
C26_Witness ==
    /\ pump.pc = "waiting"
    /\ pump.handler_runs >= 1
    /\ pump.at > pump.from
    /\ events_timer.expiry = pump.from + event_loop_interval
    /\ events_timer.expiry # pump.at + event_loop_interval

\* the number of waits of the timer that are pending
PendingWaits ==
    Cardinality({i \in DOMAIN events_timer.waits :
                    events_timer.waits[i] = "pending"})

\* C27: an expiry without an error invokes the handler exactly once and then
\* schedules exactly one further wait, so at most one wait is pending and the
\* handler never runs twice at once; an expiry with an error invokes no
\* handler and schedules nothing, and the handler never runs again after it.
C27_OneHandlerOneWaitPerExpiry ==
    /\ [](PendingWaits <= 1)
    /\ [](pump.expired =
            pump.handler_runs + (IF pump.pc = "in_handler" THEN 1 ELSE 0))
    /\ [](pump.pc = "waiting" =>
            /\ pump.scheduled = pump.expired + 1
            /\ Len(events_timer.waits) = 1)
    /\ [](pump.pc = "in_handler" => events_timer.waits = <<>>)
    /\ [](pump.errored => pump.pc = "ended" /\ events_timer.waits = <<>>)
    /\ [][pump'.errored =>
            /\ pump'.handler_runs = pump.handler_runs
            /\ pump'.expired = pump.expired
            /\ pump'.scheduled = pump.scheduled]_vars

\* the pump ran the handler, its next wait was cancelled and completed with
\* an error
C27_Witness ==
    /\ pump.errored
    /\ pump.handler_runs >= 1
    /\ pump.scheduled = pump.handler_runs + 1

====
